---- MODULE Spec2Model ----
(***************************************************************************)
(* Catalog ingestion and query engine of game-catalog-bot.                 *)
(*                                                                         *)
(*   Store      src/database.py   Database (games / notifications tables)  *)
(*   Purge      src/admin.py      AdminCommands.clear_database             *)
(*                                                                         *)
(* The games table is a set of rows; AUTOINCREMENT is the counter          *)
(* seq_games (sqlite_sequence), CURRENT_TIMESTAMP / datetime.now() is the  *)
(* logical clock `now`.  A Python dict is a function whose DOMAIN is the   *)
(* set of keys it holds, so dict.get(key, default) is Get.                 *)
(***************************************************************************)
EXTENDS Integers, Sequences, FiniteSets, TLC

\* ---------------------------------------------------------------- bounds
MaxId == 3
MaxNotif == 1
MaxClock == 1

\* ------------------------------------------------------------------ data
Titles == {"A", "B"}
BaseUrl == "https://asst2game.ru"
NonAscii == {"RU_Action"}
Tasks == {"t1", "t2"}

VARIABLES
    games,          \* rows of table games
    notifications,  \* rows of table notifications
    seq_games,      \* sqlite_sequence of games: the largest id ever used
    seq_notif,      \* sqlite_sequence of notifications
    now,            \* logical clock
    last,           \* the last Store operation: [op, ret, existed]
    lock,           \* Database._lock: its holder, or "free"
    db_writer,      \* the connection holding SQLite's write transaction
    tpc,            \* per task: position inside its operation
    top,            \* per task: the operation it runs, [op, arg, data]
    d_pc,           \* update_bot_with_all_games: position
    d_all,          \* all_games, the candidates loaded from the JSON dump
    d_unique,       \* unique_games, the title-keyed dict (insertion-ordered)
    x_pc,           \* process_all_pages: position
    x_page,         \* page_num
    x_empty,        \* empty_pages
    x_total,        \* total_games
    x_with,         \* pages_with_games
    x_games,        \* games of the current listing page
    x_i,            \* position of the game being processed
    x_all,          \* self.all_games
    x_hist,         \* per listing page requested so far: entries it yielded
    u_pc,           \* update_database: position
    u_run,          \* update_database: number of runs started
    u_i,            \* update_database: position in all_games
    u_updated,      \* updated_count
    g_pc,           \* get_all_games: position
    g_page,         \* page
    g_games,        \* games, the stubs of the current listing page
    g_i,            \* position of the game whose details are fetched
    g_detailed,     \* detailed_games
    g_all,          \* all_games
    session,        \* GameParser.session
    cache,          \* utils.request_cache: the URLs it holds
    src,            \* the source: listing page p holds the entries src[p]
    g_hist,         \* per listing page requested in this run: [n, ok]
    h_failed,       \* titles whose detail fetch failed in this run
    h_ok,           \* titles handled in this run without a failed detail fetch
    h_clean,        \* no fetch, extraction or write has failed so far
    h_before,       \* table games when the current run started
    c_pc,           \* check_new_games: position
    c_existing,     \* existing_titles
    c_games,        \* games, the stubs parse_game_list returned
    c_i,            \* position in games
    c_new,          \* new_games
    f_pc,           \* a read-only query or an extraction: position
    f_in,           \* its arguments
    f_out,          \* what it returned
    i_pc,           \* per bot process: position in the startup block of main.py
    i_seen,         \* per bot process: existing_locks still to be looked at
    lock_files,     \* the bot_instance_*.lock files: [owner, old]
    schema          \* games.db: its tables and the columns of each

storeVars == <<games, notifications, seq_games, seq_notif>>
lockVars == <<lock, db_writer, tpc, top>>
dedupVars == <<d_pc, d_all, d_unique>>
extVars == <<x_pc, x_page, x_empty, x_total, x_with, x_games, x_i, x_all, x_hist>>
syncVars == <<u_pc, u_run, u_i, u_updated, g_pc, g_page, g_games, g_i, g_detailed,
              g_all, session, cache, src, g_hist, h_failed, h_ok, h_clean, h_before>>
checkVars == <<c_pc, c_existing, c_games, c_i, c_new>>
callVars == <<f_pc, f_in, f_out>>
hostVars == <<i_pc, i_seen, lock_files, schema>>
pipeVars == <<dedupVars, extVars, syncVars, checkVars, callVars, hostVars>>
vars == <<games, notifications, seq_games, seq_notif, now, last,
          lock, db_writer, tpc, top, d_pc, d_all, d_unique,
          x_pc, x_page, x_empty, x_total, x_with, x_games, x_i, x_all, x_hist,
          u_pc, u_run, u_i, u_updated, g_pc, g_page, g_games, g_i, g_detailed,
          g_all, session, cache, src, g_hist, h_failed, h_ok, h_clean, h_before,
          c_pc, c_existing, c_games, c_i, c_new, f_pc, f_in, f_out,
          i_pc, i_seen, lock_files, schema>>

\* dict.get(key, default)
Get(d, k, default) == IF k \in DOMAIN d THEN d[k] ELSE default

\* json.dumps of a list of strings: with ensure_ascii (the default) every
\* non-ASCII string is written as its \uXXXX escape
JsonDumps(list, ensure_ascii) ==
    [i \in DOMAIN list |->
        IF ensure_ascii /\ list[i] \in NonAscii
        THEN "\\u(" \o list[i] \o ")"
        ELSE list[i]]

DetailUrl(t) == BaseUrl \o "/" \o t \o ".html"

\* the stub parse_game_element builds from a listing entry; a listing entry
\* without a link gets url = base_url, one without a date element gets today
Stub(t, linked, today) ==
    [title |-> t,
     url |-> IF linked THEN DetailUrl(t) ELSE BaseUrl,
     image_url |-> "",
     description |-> "",
     rating |-> "N/A",
     genres |-> <<>>,
     release_date |-> "day" \o ToString(today),
     page_num |-> 1]

\* the validated record parse_game_details builds from a detail page
Detail(t) ==
    [url |-> DetailUrl(t),
     title |-> t,
     description |-> "full story of " \o t,
     rating |-> "85/100",
     genres |-> <<"Action", "RU_Action">>,
     image_url |-> DetailUrl(t) \o "/poster.jpg",
     screenshots |-> <<DetailUrl(t) \o "/s1.jpg">>,
     release_date |-> "2020"]

\* the dicts callers hand to add_game
GameInputs == {Stub(t, TRUE, 0) : t \in Titles} \cup {Detail(t) : t \in Titles}

\* the dicts callers hand to update_game
UpdateInputs ==
    {[description |-> "edited", title |-> "B"]}

DataFields == {"title", "description", "rating", "genres", "image_url",
               "screenshots", "release_date", "url"}

\* the values add_game binds to its INSERT, database.py:65-75
AddGameValues(game) ==
    [title |-> Get(game, "title", ""),
     description |-> Get(game, "description", ""),
     rating |-> Get(game, "rating", "N/A"),
     genres |-> JsonDumps(Get(game, "genres", <<>>), TRUE),
     image_url |-> Get(game, "image_url", ""),
     screenshots |-> JsonDumps(Get(game, "screenshots", <<>>), TRUE),
     release_date |-> Get(game, "release_date", ""),
     url |-> Get(game, "url", "")]

Data(row) == [k \in DataFields |-> row[k]]

NewRow(id, values, ts) ==
    [id |-> id,
     title |-> values.title,
     description |-> values.description,
     rating |-> values.rating,
     genres |-> values.genres,
     image_url |-> values.image_url,
     screenshots |-> values.screenshots,
     release_date |-> values.release_date,
     url |-> values.url,
     created_at |-> ts,
     updated_at |-> ts]

RowsByTitle(rows, t) == {r \in rows : r.title = t}
RowsById(rows, id) == {r \in rows : r.id = id}

\* a plain INSERT that ignores the UNIQUE(title) constraint
InsertOrReplace_NoConflict(rows, game, id, ts) ==
    rows \cup {NewRow(id, AddGameValues(game), ts)}

\* INSERT OR REPLACE INTO games (title, ..., updated_at): the row that holds
\* the same title is deleted and a new row is inserted; id and created_at are
\* not in the column list, so the new row takes the next AUTOINCREMENT id and
\* DEFAULT CURRENT_TIMESTAMP
InsertOrReplace(rows, game, id, ts) ==
    (rows \ RowsByTitle(rows, AddGameValues(game).title))
        \cup {NewRow(id, AddGameValues(game), ts)}

\* the second definition of update_game (the one Python keeps): only the
\* keys present among the seven updatable columns are set, plus updated_at
UpdatableFields == {"description", "rating", "genres", "image_url",
                    "screenshots", "release_date", "url"}

UpdateValue(k, v) ==
    IF k \in {"genres", "screenshots"} THEN JsonDumps(v, TRUE) ELSE v

UpdateRow(r, game_data, ts) ==
    [k \in DOMAIN r |->
        IF k = "updated_at" THEN ts
        ELSE IF k \in UpdatableFields /\ k \in DOMAIN game_data
             THEN UpdateValue(k, game_data[k])
             ELSE r[k]]

UpdateGameRows(rows, game_id, game_data, ts) ==
    {IF r.id = game_id THEN UpdateRow(r, game_data, ts) ELSE r : r \in rows}

DeleteGameRows(rows, game_id) == {r \in rows : r.id # game_id}

LastOp(op, ret, existed) ==
    [op |-> op, ret |-> ret, existed |-> existed]

\* ids a caller may pass: those in use, and one that is not
IdInputs == 1..MaxId

-----------------------------------------------------------------------------
(***************************************************************************)
(* Spec: the Store's write operations, one action per call.                *)
(***************************************************************************)

StoreInit ==
    /\ games = {}
    /\ notifications = {}
    /\ seq_games = 0
    /\ seq_notif = 0
    /\ now = 0
    /\ last = LastOp("init", TRUE, FALSE)
    /\ lock = "free"
    /\ db_writer = "none"
    /\ tpc = [t \in Tasks |-> "idle"]
    /\ top = [t \in Tasks |-> [op |-> "none", arg |-> 0, data |-> <<>>]]

\* the bulk-load script has not been started
DedupIdle ==
    /\ d_pc = "idle"
    /\ d_all = <<>>
    /\ d_unique = [order |-> <<>>, map |-> <<>>]

\* process_all_pages has not been called
ExtIdle ==
    /\ x_pc = "idle"
    /\ x_page = 0
    /\ x_empty = 0
    /\ x_total = 0
    /\ x_with = 0
    /\ x_games = <<>>
    /\ x_i = 0
    /\ x_all = <<>>
    /\ x_hist = <<>>

\* update_database has not been called
SyncIdle ==
    /\ u_pc = "idle"
    /\ u_run = 0
    /\ u_i = 1
    /\ u_updated = 0
    /\ g_pc = "idle"
    /\ g_page = 0
    /\ g_games = <<>>
    /\ g_i = 0
    /\ g_detailed = <<>>
    /\ g_all = <<>>
    /\ session = "none"
    /\ cache = {}
    /\ src = <<>>
    /\ g_hist = <<>>
    /\ h_failed = {}
    /\ h_ok = {}
    /\ h_clean = TRUE
    /\ h_before = {}

\* check_new_games has not been called
CheckIdle ==
    /\ c_pc = "idle"
    /\ c_existing = {}
    /\ c_games = <<>>
    /\ c_i = 0
    /\ c_new = <<>>

\* no query or extraction is under way
CallIdle ==
    /\ f_pc = "idle"
    /\ f_in = <<>>
    /\ f_out = <<>>

\* the bot processes started on one host
Instances == {"i1", "i2", "i3"}

\* Database.init_db: CREATE TABLE IF NOT EXISTS games with its eleven
\* columns, the two ALTER TABLE for a games table that lacks created_at or
\* updated_at, CREATE TABLE IF NOT EXISTS notifications
GamesColumns ==
    {"id", "title", "description", "rating", "genres", "image_url",
     "screenshots", "release_date", "url", "created_at", "updated_at"}

NotificationsColumns == {"id", "game_id", "sent_at"}

init_db(tables, rows) ==
    IF /\ "games" \in DOMAIN tables
       /\ {"created_at", "updated_at"} \ tables["games"] # {}
       /\ rows # {}
    THEN tables   \* ALTER TABLE raises: a TIMESTAMP default on a table with rows
    ELSE [t \in DOMAIN tables \cup {"games", "notifications"} |->
            IF t = "games"
            THEN IF "games" \in DOMAIN tables
                 THEN tables["games"] \cup {"created_at", "updated_at"}
                 ELSE GamesColumns
            ELSE IF t \in DOMAIN tables THEN tables[t] ELSE NotificationsColumns]

\* no games.db yet: a function with no table in its domain
NoTables == [t \in {} |-> {}]

\* no bot process has been started; games.db as init_db leaves it
HostIdle ==
    /\ i_pc = [i \in Instances |-> "off"]
    /\ i_seen = [i \in Instances |-> {}]
    /\ lock_files = {}
    /\ schema = init_db(NoTables, {})

Init == StoreInit /\ DedupIdle /\ ExtIdle /\ SyncIdle /\ CheckIdle /\ HostIdle /\ CallIdle

\* Database.add_game: the statement either commits (True) or raises inside
\* the try block (False, nothing written)
AddGame(game, raises) ==
    /\ seq_games < MaxId
    /\ IF raises
       THEN /\ UNCHANGED storeVars
            /\ last' = LastOp("add_game", FALSE,
                              RowsByTitle(games, Get(game, "title", "")) # {})
       ELSE /\ games' = InsertOrReplace(games, game, seq_games + 1, now)
            /\ seq_games' = seq_games + 1
            /\ UNCHANGED <<notifications, seq_notif>>
            /\ last' = LastOp("add_game", TRUE,
                              RowsByTitle(games, Get(game, "title", "")) # {})
    /\ UNCHANGED <<now, lockVars, pipeVars>>

\* Database.update_game (second definition)
UpdateGame(game_id, game_data, raises) ==
    /\ IF raises
       THEN UNCHANGED games
       ELSE games' = UpdateGameRows(games, game_id, game_data, now)
    /\ last' = LastOp("update_game", ~raises, RowsById(games, game_id) # {})
    /\ UNCHANGED <<notifications, seq_games, seq_notif, now, lockVars, pipeVars>>

\* Database.update_game_genres: the statement text opens with a stray quote
\* (four quotes before UPDATE), SQLite rejects it, the except branch returns
\* False and nothing is written
UpdateGameGenres(game_id, new_genres) ==
    /\ last' = LastOp("update_game_genres", FALSE, RowsById(games, game_id) # {})
    /\ UNCHANGED <<storeVars, now, lockVars, pipeVars>>

\* Database.delete_game
DeleteGame(game_id, raises) ==
    /\ IF raises
       THEN UNCHANGED games
       ELSE games' = DeleteGameRows(games, game_id)
    /\ last' = LastOp("delete_game", ~raises, RowsById(games, game_id) # {})
    /\ UNCHANGED <<notifications, seq_games, seq_notif, now, lockVars, pipeVars>>

\* Database.add_notification: foreign keys are not enforced (no PRAGMA), so
\* any game_id is accepted
AddNotification(game_id, raises) ==
    /\ seq_notif < MaxNotif
    /\ IF raises
       THEN UNCHANGED <<notifications, seq_notif>>
       ELSE /\ notifications' = notifications \cup
                    {[id |-> seq_notif + 1, game_id |-> game_id]}
            /\ seq_notif' = seq_notif + 1
    /\ last' = LastOp("add_notification", ~raises, RowsById(games, game_id) # {})
    /\ UNCHANGED <<games, seq_games, now, lockVars, pipeVars>>

\* AdminCommands.clear_database with the argument "confirm"
ClearDatabase ==
    /\ games' = {}
    /\ notifications' = {}
    /\ last' = LastOp("clear_database", TRUE, games # {})
    /\ UNCHANGED <<seq_games, seq_notif, now, lockVars, pipeVars>>

\* time passes
Tick ==
    /\ now < MaxClock
    /\ now' = now + 1
    /\ UNCHANGED <<storeVars, last, lockVars, pipeVars>>

Next ==
    \/ \E g \in GameInputs, raises \in BOOLEAN : AddGame(g, raises)
    \/ \E id \in IdInputs, d \in UpdateInputs, raises \in BOOLEAN : UpdateGame(id, d, raises)
    \/ \E id \in IdInputs : UpdateGameGenres(id, <<"RPG">>)
    \/ \E id \in IdInputs, raises \in BOOLEAN : DeleteGame(id, raises)
    \/ \E id \in IdInputs, raises \in BOOLEAN : AddNotification(id, raises)
    \/ ClearDatabase
    \/ Tick

Spec == Init /\ [][Next]_vars

\* C1: after any sequence of Store writes on an initially empty store no two
\* rows of games hold the same title
C1_TitlesUnique ==
    \A r1 \in games, r2 \in games : r1.title = r2.title => r1 = r2

\* add_game has just replaced a stored title while another title is stored
C1_Witness ==
    /\ last = LastOp("add_game", TRUE, TRUE)
    /\ Cardinality(games) = 2

\* what C3 says add_game(game) does to the table
C3Post(game) ==
    LET t == Get(game, "title", "")
        old == RowsByTitle(games, t)
        new == RowsByTitle(games', t)
    IN  /\ \A r \in games : r.title # t => r \in games'
        /\ \A r \in games' : r.title # t => r \in games
        /\ Cardinality(new) = 1
        /\ \A n \in new : Data(n) = AddGameValues(game)
        /\ \A o \in old, n \in new :
               n.id = o.id /\ n.created_at = o.created_at

\* C3: add_game on a stored title is a field update (same number of rows, the
\* row keeps id and created_at, data fields take the new values), on a new
\* title it inserts one row, and rows of other titles are untouched
C3_AddGameIsFieldUpdate ==
    [][\A g \in GameInputs : AddGame(g, FALSE) => C3Post(g)]_vars

-----------------------------------------------------------------------------
(***************************************************************************)
(* SpecLock: the same operations as coroutines of concurrent tasks.  Every *)
(* Database write runs `async with self._lock`, opens its own connection,  *)
(* executes its statement and commits; each await is a point where another *)
(* task may run.  SQLite lets one connection at a time hold a write        *)
(* transaction (db_writer); a statement that meets another writer raises   *)
(* "database is locked" once the busy timeout has passed.                  *)
(***************************************************************************)

LockedOps == {"add_game", "update_game", "update_game_genres",
              "delete_game", "add_notification"}

\* the calls the tasks make
TaskCalls ==
    {[op |-> "add_game", arg |-> g, data |-> <<>>] : g \in GameInputs}
    \cup {[op |-> "update_game", arg |-> 1, data |-> d] : d \in UpdateInputs}
    \cup {[op |-> o, arg |-> 1, data |-> <<>>] :
            o \in {"update_game_genres", "delete_game", "add_notification"}}
    \cup {[op |-> "clear_database", arg |-> 0, data |-> <<>>]}

PendingAdds == Cardinality({t \in Tasks : tpc[t] # "idle" /\ top[t].op = "add_game"})
PendingNotifs ==
    Cardinality({t \in Tasks : tpc[t] # "idle" /\ top[t].op = "add_notification"})

InitLock == Init

\* a task calls an operation: a Database write reaches `async with self._lock`,
\* clear_database (admin.py:309) opens its connection at once
Call(t, c) ==
    /\ tpc[t] = "idle"
    /\ c.op = "add_game" => seq_games + PendingAdds < MaxId
    /\ c.op = "add_notification" => seq_notif + PendingNotifs < MaxNotif
    /\ top' = [top EXCEPT ![t] = c]
    /\ tpc' = [tpc EXCEPT ![t] = IF c.op \in LockedOps THEN "waiting" ELSE "connected"]
    /\ UNCHANGED <<storeVars, now, last, lock, db_writer, pipeVars>>

\* asyncio.Lock.acquire
Acquire(t) ==
    /\ tpc[t] = "waiting"
    /\ lock = "free"
    /\ lock' = t
    /\ tpc' = [tpc EXCEPT ![t] = "connected"]
    /\ UNCHANGED <<storeVars, now, last, db_writer, top, pipeVars>>

\* the lock stays with the task that leaves
ReleasedBy_Kept(t) == lock

\* "async with self._lock" is left, by return or by exception
ReleasedBy(t) == IF lock = t THEN "free" ELSE lock

\* await db.execute(...): the statement starts the connection's write
\* transaction
Execute(t) ==
    /\ tpc[t] = "connected"
    /\ top[t].op # "update_game_genres"
    /\ db_writer = "none"
    /\ db_writer' = t
    /\ tpc' = [tpc EXCEPT ![t] = "executed"]
    /\ UNCHANGED <<storeVars, now, last, lock, top, pipeVars>>

\* await db.execute(...) raises: the malformed statement of
\* update_game_genres, or "database is locked" while another connection
\* writes; the except branch returns False and the lock is released
ExecuteRaises(t) ==
    /\ tpc[t] = "connected"
    /\ top[t].op = "update_game_genres" \/ db_writer # "none"
    /\ tpc' = [tpc EXCEPT ![t] = "idle"]
    /\ lock' = ReleasedBy(t)
    /\ last' = LastOp(top[t].op, FALSE, FALSE)
    /\ UNCHANGED <<storeVars, now, db_writer, top, pipeVars>>

\* await db.commit(), the connection closes, the lock is released
Commit(t) ==
    /\ tpc[t] = "executed"
    /\ LET c == top[t] IN
       /\ games' =
            CASE c.op = "add_game" -> InsertOrReplace(games, c.arg, seq_games + 1, now)
              [] c.op = "update_game" ->
                    UpdateGameRows(games, c.arg, c.data, now)
              [] c.op = "delete_game" -> DeleteGameRows(games, c.arg)
              [] c.op = "clear_database" -> {}
              [] OTHER -> games
       /\ seq_games' = IF c.op = "add_game" THEN seq_games + 1 ELSE seq_games
       /\ notifications' =
            CASE c.op = "add_notification" ->
                    notifications \cup {[id |-> seq_notif + 1, game_id |-> c.arg]}
              [] c.op = "clear_database" -> {}
              [] OTHER -> notifications
       /\ seq_notif' = IF c.op = "add_notification" THEN seq_notif + 1 ELSE seq_notif
       /\ last' = LastOp(c.op, TRUE, FALSE)
    /\ db_writer' = "none"
    /\ lock' = ReleasedBy(t)
    /\ tpc' = [tpc EXCEPT ![t] = "idle"]
    /\ UNCHANGED <<now, top, pipeVars>>

\* await db.commit() raises: the connection closes without a commit, so
\* its transaction is rolled back; the except branch returns False and the
\* lock is released
CommitRaises(t) ==
    /\ tpc[t] = "executed"
    /\ db_writer' = "none"
    /\ lock' = ReleasedBy(t)
    /\ tpc' = [tpc EXCEPT ![t] = "idle"]
    /\ last' = LastOp(top[t].op, FALSE, FALSE)
    /\ UNCHANGED <<storeVars, now, top, pipeVars>>

NextLock ==
    \/ \E t \in Tasks, c \in TaskCalls : Call(t, c)
    \/ \E t \in Tasks : Acquire(t)
    \/ \E t \in Tasks : Execute(t)
    \/ \E t \in Tasks : ExecuteRaises(t)
    \/ \E t \in Tasks : Commit(t)

SpecLock == InitLock /\ [][NextLock]_vars

\* the tasks that are inside a mutating operation: connection open,
\* statement or commit outstanding
Mutating == {t \in Tasks : tpc[t] \in {"connected", "executed"}}

\* C10: at no time are two mutating operations (add_game, update_game,
\* update_game_genres, delete_game, add_notification, clear_database)
\* executing against the database concurrently
C10_WritesSerialized == Cardinality(Mutating) <= 1

-----------------------------------------------------------------------------
(***************************************************************************)
(* SpecDedup: the Deduplicator of update_bot_with_all_games (and its copy  *)
(* add_unique_games_to_bot): the dump of candidates is folded into a       *)
(* title-keyed dict, the games table is emptied and one row per key is     *)
(* inserted.                                                               *)
(***************************************************************************)

MaxCandidates == 3

GenreLists == {<<>>, <<"Action">>, <<"RPG", "RU_Action">>}
Null == "NULL"

\* one entry of the dump, as AllPagesExtractor.process_all_pages appends it;
\* entries are told apart by their place in the walk
Candidate(t, genres, place) ==
    [page |-> place,
     position_on_page |-> 1,
     title |-> t,
     url |-> DetailUrl(t),
     genres |-> genres,
     found_genres |-> Len(genres) > 0]

CandidateLists ==
    UNION {{[i \in 1..n |-> Candidate(f[i][1], f[i][2], i)] :
                f \in [1..n -> Titles \X GenreLists]} : n \in 0..MaxCandidates}

EmptyDict == [order |-> <<>>, map |-> <<>>]

\* unique_games[title] = game
DictPut(dict, title, game) ==
    [order |-> IF title \in DOMAIN dict.map THEN dict.order
               ELSE Append(dict.order, title),
     map |-> [t \in DOMAIN dict.map \cup {title} |->
                IF t = title THEN game ELSE dict.map[t]]]

\* the first candidate of a title is kept whatever arrives later
MergeOne_KeepFirst(unique, game) ==
    IF game.title \notin DOMAIN unique.map
    THEN DictPut(unique, game.title, game)
    ELSE unique

\* a genre-bearing candidate replaces whatever is stored
MergeOne_GenresAlwaysReplace(unique, game) ==
    IF game.title \notin DOMAIN unique.map \/ game.found_genres
    THEN DictPut(unique, game.title, game)
    ELSE unique

\* the body of the loop: the candidate is stored if its title is new, or if
\* it has genres and the stored one has none
MergeOne(unique, game) ==
    IF \/ game.title \notin DOMAIN unique.map
       \/ (game.found_genres /\ ~unique.map[game.title].found_genres)
    THEN DictPut(unique, game.title, game)
    ELSE unique

RECURSIVE MergeAll(_, _)
\* for game in all_games: ... over the first n candidates
MergeAll(all, n) ==
    IF n = 0 THEN EmptyDict ELSE MergeOne(MergeAll(all, n - 1), all[n])

\* INSERT INTO games (title, url, genres): the other columns stay NULL
BulkRow(game, id, ts) ==
    [id |-> id,
     title |-> game.title,
     description |-> Null,
     rating |-> Null,
     genres |-> IF game.genres # <<>> THEN JsonDumps(game.genres, FALSE) ELSE <<>>,
     image_url |-> Null,
     screenshots |-> Null,
     release_date |-> Null,
     url |-> game.url,
     created_at |-> ts,
     updated_at |-> ts]

InitDedup ==
    /\ StoreInit
    /\ ExtIdle
    /\ SyncIdle
    /\ CheckIdle /\ HostIdle
    /\ CallIdle
    /\ d_pc = "loaded"
    /\ d_all \in CandidateLists
    /\ d_unique = EmptyDict

\* update_bot_with_all_games: merge, DELETE FROM games, insert every value of
\* unique_games in dict order, commit
UpdateBotWithAllGames ==
    /\ d_pc = "loaded"
    /\ LET unique == MergeAll(d_all, Len(d_all)) IN
       /\ d_unique' = unique
       /\ games' = {BulkRow(unique.map[unique.order[i]], seq_games + i, now) :
                        i \in DOMAIN unique.order}
       /\ seq_games' = seq_games + Len(unique.order)
    /\ d_pc' = "done"
    /\ last' = LastOp("update_bot_with_all_games", TRUE, FALSE)
    /\ UNCHANGED <<notifications, seq_notif, now, lockVars, d_all, extVars, syncVars, checkVars, callVars, hostVars>>

NextDedup == UpdateBotWithAllGames

SpecDedup == InitDedup /\ [][NextDedup]_vars

\* indices of the candidates of title t, and of its genre-bearing ones
IndicesOf(t) == {i \in DOMAIN d_all : d_all[i].title = t}
BearingOf(t) == {i \in IndicesOf(t) : d_all[i].genres # <<>>}
MinOf(S) == CHOOSE i \in S : \A j \in S : i <= j

\* C4: if at least one candidate of a title has a non-empty genre list, the
\* record retained for that title has a non-empty genre list, in whatever
\* order the candidates arrive
C4_GenreBearingRetained ==
    d_pc = "done" =>
        \A t \in Titles :
            BearingOf(t) # {} =>
                /\ t \in DOMAIN d_unique.map
                /\ d_unique.map[t].genres # <<>>

\* a genre-empty candidate arrived before a genre-bearing one of its title
C4_Witness ==
    /\ d_pc = "done"
    /\ \E t \in Titles : \E i \in IndicesOf(t), j \in BearingOf(t) :
            i < j /\ d_all[i].genres = <<>>

\* C5: the output holds exactly one record per distinct input title: the
\* first genre-bearing candidate of the title if there is one, otherwise the
\* first candidate of the title
C5_FirstOfFullestKept ==
    d_pc = "done" =>
        /\ DOMAIN d_unique.map = {d_all[i].title : i \in DOMAIN d_all}
        /\ Len(d_unique.order) = Cardinality(DOMAIN d_unique.map)
        /\ \A t \in DOMAIN d_unique.map :
              d_unique.map[t] =
                 IF BearingOf(t) # {} THEN d_all[MinOf(BearingOf(t))]
                 ELSE d_all[MinOf(IndicesOf(t))]

\* two genre-bearing candidates of one title with different genres arrived,
\* after a genre-empty one
C5_Witness ==
    /\ d_pc = "done"
    /\ \E t \in Titles : \E i \in BearingOf(t), j \in BearingOf(t) :
            /\ i < j
            /\ d_all[i].genres # d_all[j].genres
            /\ \E k \in IndicesOf(t) : k < i /\ d_all[k].genres = <<>>

-----------------------------------------------------------------------------
(***************************************************************************)
(* AllPagesExtractor.process_all_pages: the walk over the listing pages    *)
(* /consoles/nintendo-switch/page/N/.  Every listing page is fetched once, *)
(* so what the source returns for it is chosen when it is fetched.         *)
(***************************************************************************)

ExtMaxPages == 5
EmptyStreak == 3

\* what extract_games_from_page finds on a listing page that loaded
ExtListings == {<<>>, <<"A">>, <<"A", "B">>}

\* what extract_genres_from_game_page finds on the page of a game
ExtGenresOf(t) == IF t = "A" THEN <<"Action", "RU_Action">> ELSE <<>>

\* the counter is left as it is after a page with games
ExtEmptyAfterGames_NoReset(empty) == empty

\* empty_pages = 0 after a page with games
ExtEmptyAfterGames(empty) == 0

\* the walk goes on whatever the streak
ExtStreakReached_Never(empty) == FALSE

\* if empty_pages >= 3: break
ExtStreakReached(empty) == empty >= EmptyStreak

\* the for loop takes the next page_num of range(1, max_pages + 1), or ends
ExtAdvance ==
    IF x_page = ExtMaxPages
    THEN x_pc' = "done" /\ x_page' = x_page
    ELSE x_pc' = "page" /\ x_page' = x_page + 1

\* process_all_pages is called
ExtStart ==
    /\ x_pc = "idle"
    /\ u_pc = "idle"
    /\ x_pc' = "page"
    /\ x_page' = 1
    /\ UNCHANGED <<x_empty, x_total, x_with, x_games, x_i, x_all, x_hist>>
    /\ UNCHANGED <<storeVars, now, last, lockVars, dedupVars, syncVars, checkVars, callVars, hostVars>>

\* the listing page does not load (get_page returns ""), or loads and holds
\* no game: the streak grows, and the walk breaks at 3
ExtPageEmpty(loaded) ==
    /\ x_pc = "page"
    /\ x_hist' = Append(x_hist, 0)
    /\ x_empty' = x_empty + 1
    /\ IF ExtStreakReached(x_empty + 1)
       THEN x_pc' = "done" /\ x_page' = x_page
       ELSE ExtAdvance
    /\ UNCHANGED <<x_total, x_with, x_games, x_i, x_all>>
    /\ UNCHANGED <<storeVars, now, last, lockVars, dedupVars, syncVars, checkVars, callVars, hostVars>>

\* the listing page loads and holds games
ExtPageGames(listing) ==
    /\ x_pc = "page"
    /\ listing # <<>>
    /\ x_hist' = Append(x_hist, Len(listing))
    /\ x_empty' = ExtEmptyAfterGames(x_empty)
    /\ x_with' = x_with + 1
    /\ x_games' = listing
    /\ x_i' = 1
    /\ x_pc' = "game"
    /\ UNCHANGED <<x_page, x_total, x_all>>
    /\ UNCHANGED <<storeVars, now, last, lockVars, dedupVars, syncVars, checkVars, callVars, hostVars>>

\* one game of the page: its page is fetched and, if it loads, its genres are
\* appended to all_games; after the last game the walk goes to the next page
ExtGame(loaded) ==
    /\ x_pc = "game"
    /\ x_total' = x_total + 1
    /\ x_all' =
         IF loaded
         THEN Append(x_all,
                  [page |-> x_page,
                   position_on_page |-> x_i,
                   title |-> x_games[x_i],
                   url |-> DetailUrl(x_games[x_i]),
                   genres |-> ExtGenresOf(x_games[x_i]),
                   found_genres |-> Len(ExtGenresOf(x_games[x_i])) > 0])
         ELSE x_all
    /\ IF x_i < Len(x_games)
       THEN x_i' = x_i + 1 /\ UNCHANGED <<x_pc, x_page>>
       ELSE x_i' = x_i /\ ExtAdvance
    /\ UNCHANGED <<x_empty, x_with, x_games, x_hist>>
    /\ UNCHANGED <<storeVars, now, last, lockVars, dedupVars, syncVars, checkVars, callVars, hostVars>>

-----------------------------------------------------------------------------
(***************************************************************************)
(* GameParser.get_all_games and GameScheduler.update_database: a full      *)
(* sync.  The source is unchanged during the model's life: the entries of  *)
(* listing page p are chosen when page p first loads and stay src[p].      *)
(***************************************************************************)

ParserMaxPages == 2

\* what parse_page_games can find on a listing page: entries with distinct
\* titles
ParserListings == {<<>>, <<"A">>, <<"B">>, <<"A", "B">>, <<"B", "A">>}

\* the listing entries that carry a link to a detail page
Linked == {"A"}

\* how parse_game_details ends for a linked entry
DetailOutcomes == {"ok", "fetch_failed", "extract_failed", "raised"}

\* page_urls of get_all_games, for page > 1
PageUrls(page) ==
    <<BaseUrl \o "?page=" \o ToString(page),
      BaseUrl \o "page/" \o ToString(page) \o "/",
      BaseUrl \o "page-" \o ToString(page) \o "/",
      BaseUrl \o "p/" \o ToString(page) \o "/",
      "https://asst2game.ru/consoles/nintendo-switch/page/"
          \o ToString(page) \o "/">>

\* page_url of get_all_games: page_urls[-1]
PageUrl(page) ==
    IF page = 1 THEN BaseUrl
    ELSE PageUrls(page)[Len(PageUrls(page))]

\* the loop goes one page further than the cap
ParserMorePages_OneMore(page) == page <= ParserMaxPages + 1

\* while page <= max_pages
ParserMorePages(page) == page <= ParserMaxPages

\* a failed item is dropped
Detailed_DropFailed(game, outcome) ==
    IF outcome = "ok" THEN <<Detail(game.title)>> ELSE <<>>

\* what the detail loop appends to detailed_games for a game: the record of
\* parse_game_details, or the listing stub when there is no link, when
\* parse_game_details returns None, or when it raises
Detailed(game, outcome) ==
    IF outcome = "ok" THEN <<Detail(game.title)>> ELSE <<game>>

\* the loop is left at the first write that fails
PersistGoesOn_StopOnFailure(i, n, success) == success /\ i < n

\* for game in all_games: the loop goes on whatever add_game returned
PersistGoesOn(i, n, success) == i < n

\* GameParser.__aexit__ does nothing
AExit_LeavesOpen(s) == s

\* GameParser.__aexit__: if self.session: await self.session.close()
AExit(s) == IF s = "open" THEN "closed" ELSE s

\* "async with self" is left and all_games is returned to update_database
GetAllGamesReturns(all) ==
    /\ g_pc' = "returned"
    /\ session' = AExit(session)
    /\ u_pc' = IF all # <<>> THEN "persisting" ELSE "done"

\* update_database is called and get_all_games opens its session; first is
\* FALSE for a second call after the first has ended
UpdateDatabaseStart(first) ==
    /\ x_pc = "idle"
    /\ c_pc \in {"idle", "returned", "failed"}
    /\ IF first THEN u_pc = "idle" ELSE u_pc = "done" /\ u_run = 1
    /\ u_pc' = "walking"
    /\ u_run' = u_run + 1
    /\ u_i' = 1
    /\ u_updated' = 0
    /\ g_pc' = "page"
    /\ g_page' = 1
    /\ g_games' = <<>>
    /\ g_i' = 0
    /\ g_detailed' = <<>>
    /\ g_all' = <<>>
    /\ session' = "open"
    /\ g_hist' = <<>>
    /\ h_failed' = {}
    /\ h_ok' = {}
    /\ h_before' = games
    /\ UNCHANGED <<cache, src, h_clean>>
    /\ UNCHANGED <<storeVars, now, last, lockVars, dedupVars, extVars, checkVars, callVars, hostVars>>

\* one turn of the while loop up to the detail loop: parse_page_games
\* fetches page_url (from the request cache when it holds it); no games
\* breaks the loop
WalkListing(fetched, listing) ==
    /\ g_pc = "page"
    /\ PageUrl(g_page) \in cache => fetched
    /\ listing = IF ~fetched THEN <<>>
                 ELSE IF g_page <= Len(src) THEN src[g_page] ELSE listing
    /\ src' = IF fetched /\ g_page > Len(src) THEN Append(src, listing) ELSE src
    /\ cache' = IF fetched THEN cache \cup {PageUrl(g_page)} ELSE cache
    /\ g_hist' = Append(g_hist, [p |-> g_page, n |-> Len(listing), ok |-> fetched])
    /\ h_clean' = (h_clean /\ fetched)
    /\ g_games' = [k \in 1..Len(listing) |->
                      Stub(listing[k], listing[k] \in Linked, now)]
    /\ g_detailed' = <<>>
    /\ IF listing = <<>>
       THEN GetAllGamesReturns(g_all) /\ g_i' = 0
       ELSE g_pc' = "details" /\ g_i' = 1 /\ UNCHANGED <<session, u_pc>>
    /\ UNCHANGED <<u_run, u_i, u_updated, g_page, g_all, h_failed, h_ok, h_before>>
    /\ UNCHANGED <<storeVars, now, last, lockVars, dedupVars, extVars, checkVars, callVars, hostVars>>

\* one turn of the detail loop, and after the last game of the page
\* all_games.extend(detailed_games), page += 1 and the loop test
WalkDetail(outcome) ==
    /\ g_pc = "details"
    /\ LET game == g_games[g_i]
           linked == game.url # BaseUrl
           detailed == g_detailed \o Detailed(game, outcome)
       IN  /\ IF linked THEN outcome \in DetailOutcomes ELSE outcome = "no_link"
           /\ game.url \in cache => outcome # "fetch_failed"
           /\ cache' = IF outcome \in {"ok", "extract_failed"}
                       THEN cache \cup {game.url} ELSE cache
           /\ h_failed' = IF outcome = "fetch_failed"
                          THEN h_failed \cup {game.title} ELSE h_failed
           /\ h_ok' = IF outcome # "fetch_failed"
                      THEN h_ok \cup {game.title} ELSE h_ok
           /\ h_clean' = (h_clean /\ outcome \in {"ok", "no_link"})
           /\ IF g_i < Len(g_games)
              THEN /\ g_i' = g_i + 1
                   /\ g_detailed' = detailed
                   /\ UNCHANGED <<g_pc, g_page, g_all, session, u_pc>>
              ELSE /\ g_i' = g_i
                   /\ g_detailed' = detailed
                   /\ g_all' = g_all \o detailed
                   /\ g_page' = g_page + 1
                   /\ IF ParserMorePages(g_page + 1)
                      THEN g_pc' = "page" /\ UNCHANGED <<session, u_pc>>
                      ELSE GetAllGamesReturns(g_all \o detailed)
    /\ UNCHANGED <<u_run, u_i, u_updated, g_games, src, g_hist, h_before>>
    /\ UNCHANGED <<storeVars, now, last, lockVars, dedupVars, extVars, checkVars, callVars, hostVars>>

\* one turn of "for game in all_games": add_game, which returns False when
\* its INSERT raises; after the last game the run ends
Persist(raises) ==
    /\ u_pc = "persisting"
    /\ LET game == g_all[u_i]
           existed == RowsByTitle(games, game.title) # {}
       IN  /\ IF raises
              THEN UNCHANGED <<games, seq_games>>
              ELSE /\ games' = InsertOrReplace(games, game, seq_games + 1, now)
                   /\ seq_games' = seq_games + 1
           /\ last' = LastOp("add_game", ~raises, existed)
    /\ u_updated' = IF raises THEN u_updated ELSE u_updated + 1
    /\ u_i' = u_i + 1
    /\ u_pc' = IF PersistGoesOn(u_i, Len(g_all), ~raises) THEN "persisting" ELSE "done"
    /\ h_clean' = (h_clean /\ ~raises)
    /\ UNCHANGED <<u_run, g_pc, g_page, g_games, g_i, g_detailed, g_all, session,
                   cache, src, g_hist, h_failed, h_ok, h_before>>
    /\ UNCHANGED <<notifications, seq_notif, now, lockVars, dedupVars, extVars, checkVars, callVars, hostVars>>

\* the process is restarted between two runs: request_cache starts empty
ProcessRestart ==
    /\ u_pc = "done"
    /\ u_run = 1
    /\ cache # {}
    /\ cache' = {}
    /\ UNCHANGED <<u_pc, u_run, u_i, u_updated, g_pc, g_page, g_games, g_i,
                   g_detailed, g_all, session, src, g_hist, h_failed, h_ok,
                   h_clean, h_before>>
    /\ UNCHANGED <<storeVars, now, last, lockVars, dedupVars, extVars, checkVars, callVars, hostVars>>

\* a day passes between two runs
DayPasses ==
    /\ u_pc = "done"
    /\ u_run = 1
    /\ now < MaxClock
    /\ now' = now + 1
    /\ UNCHANGED <<storeVars, last, lockVars, pipeVars>>


NextWalk ==
    \/ ExtStart
    \/ \E loaded \in BOOLEAN : ExtPageEmpty(loaded)
    \/ \E listing \in ExtListings : ExtPageGames(listing)
    \/ \E loaded \in BOOLEAN : ExtGame(loaded)
    \/ UpdateDatabaseStart(TRUE)
    \/ \E fetched \in BOOLEAN, listing \in ParserListings : WalkListing(fetched, listing)
    \/ \E outcome \in DetailOutcomes \cup {"no_link"} : WalkDetail(outcome)
    \/ \E raises \in BOOLEAN : Persist(raises)

SpecWalk == Init /\ [][NextWalk]_vars /\ WF_vars(NextWalk)

NextSync ==
    \/ \E first \in BOOLEAN : UpdateDatabaseStart(first)
    \/ \E fetched \in BOOLEAN, listing \in ParserListings : WalkListing(fetched, listing)
    \/ \E outcome \in DetailOutcomes \cup {"no_link"} : WalkDetail(outcome)
    \/ \E raises \in BOOLEAN : Persist(raises)
    \/ ProcessRestart
    \/ DayPasses

SpecSync == Init /\ [][NextSync]_vars

RECURSIVE SumOf(_)
SumOf(h) == IF h = <<>> THEN 0 ELSE Head(h) + SumOf(Tail(h))

RECURSIVE TrailingZeros(_)
TrailingZeros(h) ==
    IF h = <<>> \/ h[Len(h)] # 0 THEN 0
    ELSE 1 + TrailingZeros(SubSeq(h, 1, Len(h) - 1))

\* listing page q and the two before it each yielded zero entries
StreakEndsAt(q) ==
    /\ q >= EmptyStreak
    /\ \A k \in (q - EmptyStreak + 1)..q : x_hist[k] = 0

\* C6: the walk stops at the first page p at which page p and the two pages
\* before it yielded zero entries, requests no listing page after p, has
\* processed the entries of every non-empty page before p, and any non-empty
\* page resets the streak counter to 0
C6_StopsAfterThreeEmptyPages ==
    /\ x_empty = TrailingZeros(x_hist)
    /\ \A q \in 1..(Len(x_hist) - 1) : ~StreakEndsAt(q)
    /\ StreakEndsAt(Len(x_hist)) => x_pc = "done"
    /\ x_pc = "done" =>
          /\ StreakEndsAt(Len(x_hist)) \/ Len(x_hist) = ExtMaxPages
          /\ x_page = Len(x_hist)
          /\ x_total = SumOf(x_hist)

\* the walk has stopped on a streak, before the page cap, after a page with
\* games
C6_Witness ==
    /\ x_pc = "done"
    /\ Len(x_hist) < ExtMaxPages
    /\ StreakEndsAt(Len(x_hist))
    /\ x_total > 0

RECURSIVE SumYield(_)
SumYield(h) == IF h = <<>> THEN 0 ELSE Head(h).n + SumYield(Tail(h))

\* no walker has requested, or is about to request, a listing page beyond
\* its max_pages
PagesWithinCap ==
    /\ Len(x_hist) <= ExtMaxPages
    /\ x_pc = "page" => x_page = Len(x_hist) + 1 /\ x_page <= ExtMaxPages
    /\ \A k \in 1..Len(g_hist) : g_hist[k].p = k /\ k <= ParserMaxPages
    /\ g_pc = "page" => g_page = Len(g_hist) + 1 /\ g_page <= ParserMaxPages

\* C7: get_all_games and process_all_pages never request a listing page whose
\* index is greater than max_pages, whatever each fetch returns, and a walk
\* that has started always returns to its caller
C7_WalksTerminate ==
    /\ []PagesWithinCap
    /\ (x_pc = "page") ~> (x_pc = "done")
    /\ (g_pc = "page") ~> (g_pc = "returned")

\* get_all_games has returned after it requested its last allowed page, which
\* held games
C7_Witness ==
    /\ g_pc = "returned"
    /\ Len(g_hist) = ParserMaxPages
    /\ g_hist[ParserMaxPages].n > 0

\* a run that has ended has closed its session, has put every entry of every
\* listing page it read into all_games, and has handed every one of them to
\* add_game
RunHandledEveryItem ==
    u_pc = "done" =>
        /\ g_pc = "returned"
        /\ session = "closed"
        /\ Len(g_all) = SumYield(g_hist)
        /\ u_i - 1 = Len(g_all)

\* C8: whatever detail fetches, extractions and writes fail, a run handles
\* every remaining item and ends normally; it ends without processing any
\* item only if the first listing page yields no entry, because it cannot be
\* fetched or because no entry is extracted from it
C8_RunSurvivesItemFailures ==
    /\ [](RunHandledEveryItem
            /\ ((u_pc = "done" /\ u_i = 1) => g_hist[1].n = 0))
    /\ (u_pc = "walking") ~> (u_pc = "done")

\* a run has ended after a detail fetch failed and a write failed, and it
\* has handled two items or more
C8_Witness ==
    /\ u_pc = "done"
    /\ h_failed # {}
    /\ u_updated < Len(g_all)
    /\ Len(g_all) >= 2
    /\ u_i - 1 = Len(g_all)

\* C8 as stated: the same, and a run ends without processing any item only
\* if the first listing page cannot be fetched
C8_OnlyUnfetchedFirstPage ==
    /\ [](RunHandledEveryItem
            /\ ((u_pc = "done" /\ u_i = 1) => ~g_hist[1].ok))
    /\ (u_pc = "walking") ~> (u_pc = "done")

\* the field values stored under title t in rows
StoredUnder(rows, t) == {Data(r) : r \in RowsByTitle(rows, t)}

\* C9: when the detail page of an item cannot be fetched during a sync,
\* nothing is written to the Store for it: what is stored under its title
\* after the run is what was stored under it before the run
C9_FailedFetchWritesNothing ==
    u_pc = "done" =>
        \A t \in h_failed \ h_ok :
            StoredUnder(games, t) = StoredUnder(h_before, t)

\* C2: a second full sync against the unchanged source, with no failure in
\* either run, leaves the same number of records, the same titles, and for
\* each title the same field values as the first
C2_SecondSyncChangesNothing ==
    (u_pc = "done" /\ u_run = 2 /\ h_clean) =>
        /\ Cardinality(games) = Cardinality(h_before)
        /\ {r.title : r \in games} = {r.title : r \in h_before}
        /\ \A t \in Titles : StoredUnder(games, t) = StoredUnder(h_before, t)

-----------------------------------------------------------------------------
(***************************************************************************)
(* SpecSession: the runs that open the parser's HTTP session, with the     *)
(* exits by exception.  The handlers that start a run are awaited one      *)
(* after another, so a run starts only when no other run is under way;     *)
(* here a check for new games, if any, comes before the full sync.         *)
(***************************************************************************)

\* an exception leaves the body of "async with self" in get_all_games (from
\* parse_page_games, or a cancellation at an await): __aexit__ runs, and
\* update_database ends without all_games
WalkRaises ==
    /\ u_pc = "walking"
    /\ session' = AExit(session)
    /\ g_pc' = "raised"
    /\ u_pc' = "failed"
    /\ UNCHANGED <<u_run, u_i, u_updated, g_page, g_games, g_i, g_detailed, g_all,
                   cache, src, g_hist, h_failed, h_ok, h_clean, h_before>>
    /\ UNCHANGED <<storeVars, now, last, lockVars, dedupVars, extVars, checkVars, callVars, hostVars>>

\* GameScheduler.check_new_games: Database.get_all_games takes no limit, so
\* get_all_games(limit=1000) raises TypeError; the handler logs it and ends
\* before check_for_new_games is called
CheckNewGames ==
    /\ x_pc = "idle"
    /\ u_pc \in {"idle", "done", "failed"}
    /\ c_pc \in {"idle", "returned", "failed"}
    /\ last # LastOp("get_all_games", FALSE, FALSE)
    /\ last' = LastOp("get_all_games", FALSE, FALSE)
    /\ UNCHANGED <<storeVars, now, lockVars, pipeVars>>

\* GameParser.check_for_new_games(existing_titles) is called and opens its
\* session
CheckForNewGamesStart(existing) ==
    /\ c_pc = "idle"
    /\ x_pc = "idle"
    /\ u_pc = "idle"
    /\ c_existing' = existing
    /\ session' = "open"
    /\ c_pc' = "listing"
    /\ UNCHANGED <<c_games, c_i, c_new>>
    /\ UNCHANGED <<u_pc, u_run, u_i, u_updated, g_pc, g_page, g_games, g_i, g_detailed,
                   g_all, cache, src, g_hist, h_failed, h_ok, h_clean, h_before>>
    /\ UNCHANGED <<storeVars, now, last, lockVars, dedupVars, extVars, callVars, hostVars>>

\* check_for_new_games is left, by return or by exception: "async with self"
\* is left and the locals are gone
CheckForNewGamesLeft(how) ==
    /\ session' = AExit(session)
    /\ c_pc' = how
    /\ c_existing' = {}
    /\ c_games' = <<>>
    /\ c_i' = 0

\* parse_game_list: the main page is fetched and its entries are parsed
CheckListing(fetched, listing) ==
    /\ c_pc = "listing"
    /\ BaseUrl \in cache => fetched
    /\ ~fetched => listing = <<>>
    /\ cache' = IF fetched THEN cache \cup {BaseUrl} ELSE cache
    /\ IF listing = <<>>
       THEN CheckForNewGamesLeft("returned")
       ELSE /\ c_games' = [k \in 1..Len(listing) |->
                              Stub(listing[k], listing[k] \in Linked, now)]
            /\ c_pc' = "details"
            /\ c_i' = 1
            /\ UNCHANGED <<session, c_existing>>
    /\ UNCHANGED c_new
    /\ UNCHANGED <<u_pc, u_run, u_i, u_updated, g_pc, g_page, g_games, g_i, g_detailed,
                   g_all, src, g_hist, h_failed, h_ok, h_clean, h_before>>
    /\ UNCHANGED <<storeVars, now, last, lockVars, dedupVars, extVars, callVars, hostVars>>

\* what one turn of "for game in games" appends to new_games
NewGames(game, outcome) ==
    IF outcome = "ok" THEN <<Detail(game.title)>>
    ELSE IF outcome = "no_link" THEN <<game>>
    ELSE <<>>

\* one turn of "for game in games" of check_for_new_games; an exception of
\* parse_game_details leaves the loop and the "async with" block
CheckDetail(outcome) ==
    /\ c_pc = "details"
    /\ LET game == c_games[c_i]
           new == c_new \o NewGames(game, outcome)
       IN  /\ IF game.title \in c_existing THEN outcome = "known"
              ELSE IF game.url # BaseUrl THEN outcome \in DetailOutcomes
              ELSE outcome = "no_link"
           /\ game.url \in cache => outcome # "fetch_failed"
           /\ cache' = IF outcome \in {"ok", "extract_failed"}
                       THEN cache \cup {game.url} ELSE cache
           /\ IF outcome = "raised"
              THEN CheckForNewGamesLeft("failed") /\ c_new' = <<>>
              ELSE /\ c_new' = new
                   /\ IF c_i < Len(c_games)
                      THEN /\ c_i' = c_i + 1
                           /\ UNCHANGED <<c_pc, session, c_existing, c_games>>
                      ELSE CheckForNewGamesLeft("returned")
    /\ UNCHANGED <<u_pc, u_run, u_i, u_updated, g_pc, g_page, g_games, g_i, g_detailed,
                   g_all, src, g_hist, h_failed, h_ok, h_clean, h_before>>
    /\ UNCHANGED <<storeVars, now, last, lockVars, dedupVars, extVars, callVars, hostVars>>

NextSession ==
    \/ UpdateDatabaseStart(TRUE)
    \/ \E fetched \in BOOLEAN, listing \in ParserListings : WalkListing(fetched, listing)
    \/ \E outcome \in DetailOutcomes \cup {"no_link"} : WalkDetail(outcome)
    \/ \E raises \in BOOLEAN : Persist(raises)
    \/ WalkRaises
    \/ \E existing \in SUBSET Titles : CheckForNewGamesStart(existing)
    \/ \E fetched \in BOOLEAN, listing \in ParserListings : CheckListing(fetched, listing)
    \/ \E outcome \in DetailOutcomes \cup {"no_link", "known"} : CheckDetail(outcome)
    \/ CheckNewGames

SpecSession == Init /\ [][NextSession]_vars

\* a run is inside the "async with self" block of the parser
InsideSessionBlock == u_pc = "walking" \/ c_pc \in {"listing", "details"}

\* C11: the session a run opens is closed on every exit path of the run,
\* return or exception: outside a run's "async with" block no session is open
C11_SessionClosedAfterRun == session = "open" => InsideSessionBlock

\* a full sync and a check for new games have both been left by an
\* exception, and the session is closed
C11_Witness ==
    /\ u_pc = "failed"
    /\ g_pc = "raised"
    /\ c_pc = "failed"
    /\ g_hist # <<>>
    /\ session = "closed"

-----------------------------------------------------------------------------
(***************************************************************************)
(* SpecBoot: a full sync, the administrative purge and the start of the    *)
(* bot process, up to and including a start that rebuilds the database.    *)
(***************************************************************************)

StartupMinGames == 2

\* one entry of all_switch_games_with_descriptions.json
RailwayGame(t) ==
    [title |-> t, url |-> DetailUrl(t), genres |-> <<"Action">>,
     description |-> "dump story of " \o t]

\* what json.load finds at startup; <<>> when no dump file is there
RailwayDumps ==
    {<<>>, <<RailwayGame("A")>>, <<RailwayGame("B"), RailwayGame("B")>>}

\* unique_games of guaranteed_railway_fix: the first entry of each title
RECURSIVE RailwayUnique(_, _)
RailwayUnique(dump, n) ==
    IF n = 0 THEN <<>>
    ELSE LET before == RailwayUnique(dump, n - 1)
         IN  IF \E k \in DOMAIN before : before[k].title = dump[n].title
             THEN before
             ELSE Append(before, dump[n])

\* INSERT INTO games (title, url, genres, description, rating, image_url,
\* screenshots, release_date) with None for the last four; the rebuilt
\* table has no updated_at column
RailwayRow(game, id, ts) ==
    [id |-> id,
     title |-> game.title,
     description |-> Get(game, "description", ""),
     rating |-> Null,
     genres |-> JsonDumps(Get(game, "genres", <<>>), FALSE),
     image_url |-> Null,
     screenshots |-> Null,
     release_date |-> Null,
     url |-> game.url,
     created_at |-> ts,
     updated_at |-> Null]

\* CREATE TABLE games of guaranteed_railway_fix, in the file it has just
\* removed: ten columns, updated_at not among them, and no other table
RailwayColumns ==
    {"id", "title", "url", "genres", "description", "rating", "image_url",
     "screenshots", "release_date", "created_at"}

RailwayTables == [t \in {"games"} |-> RailwayColumns]

\* the table and the columns the statement of a Store write names
Statement(op) ==
    CASE op = "add_game" ->
           [table |-> "games",
            columns |-> {"title", "description", "rating", "genres", "image_url",
                         "screenshots", "release_date", "url", "updated_at"}]
      [] op = "update_game" ->
           [table |-> "games", columns |-> {"updated_at", "id"}]
      [] op = "add_notification" ->
           [table |-> "notifications", columns |-> {"game_id"}]

StoreWrites == {"add_game", "update_game", "add_notification"}

\* SQLite prepares the statement: its table is there and has the columns
Executes(op, tables) ==
    /\ Statement(op).table \in DOMAIN tables
    /\ Statement(op).columns \subseteq tables[Statement(op).table]

\* the database has been rebuilt by guaranteed_railway_fix
Rebuilt == schema = RailwayTables

\* the bot process starts (main.py): init_db, then, when fewer than 100 games
\* are stored, guaranteed_railway_fix, which, if it finds a dump, removes
\* games.db and creates it again with the games of the dump
Startup(dump) ==
    /\ x_pc = "idle"
    /\ u_pc \in {"idle", "done"}
    /\ c_pc \in {"idle", "returned", "failed"}
    /\ ~Rebuilt
    /\ cache' = {}
    /\ IF Cardinality(games) < StartupMinGames /\ dump # <<>>
       THEN LET unique == RailwayUnique(dump, Len(dump)) IN
            /\ games' = {RailwayRow(unique[i], i, now) : i \in DOMAIN unique}
            /\ seq_games' = Len(unique)
            /\ notifications' = {}
            /\ seq_notif' = 0
            /\ schema' = RailwayTables
            /\ last' = LastOp("railway_fix", TRUE, games # {})
       ELSE /\ UNCHANGED storeVars
            /\ schema' = init_db(schema, games)
            /\ last' = LastOp("startup", TRUE, games # {})
    /\ UNCHANGED <<u_pc, u_run, u_i, u_updated, g_pc, g_page, g_games, g_i, g_detailed,
                   g_all, session, src, g_hist, h_failed, h_ok, h_clean, h_before>>
    /\ UNCHANGED <<now, lockVars, dedupVars, extVars, checkVars, callVars,
                   i_pc, i_seen, lock_files>>

\* a write the bot issues once it has started on the rebuilt database: the
\* statement raises when the schema lacks its table or one of its columns
WriteAfterRebuild(op) ==
    /\ Rebuilt
    /\ CASE op = "add_game" ->
             \E game \in GameInputs : AddGame(game, ~Executes(op, schema))
         [] op = "update_game" ->
             \E game_id \in IdInputs, game_data \in UpdateInputs :
                 UpdateGame(game_id, game_data, ~Executes(op, schema))
         [] op = "add_notification" ->
             \E game_id \in IdInputs : AddNotification(game_id, ~Executes(op, schema))

NextBoot ==
    \/ ~Rebuilt /\ UpdateDatabaseStart(TRUE)
    \/ \E fetched \in BOOLEAN, listing \in ParserListings : WalkListing(fetched, listing)
    \/ \E outcome \in DetailOutcomes \cup {"no_link"} : WalkDetail(outcome)
    \/ \E raises \in BOOLEAN : Persist(raises)
    \/ ~Rebuilt /\ u_pc # "walking" /\ ClearDatabase
    \/ \E dump \in RailwayDumps : Startup(dump)
    \/ \E op \in StoreWrites : WriteAfterRebuild(op)

SpecBoot == Init /\ [][NextBoot]_vars

StoredTitles(rows) == {r.title : r \in rows}

\* C12: records are removed only by the administrative purge: no step of a
\* sync run or of the bot's startup removes a title from the Store
C12_OnlyPurgeRemoves ==
    [][StoredTitles(games) \subseteq StoredTitles(games')
         \/ last'.op = "clear_database"]_vars

\* C30: after the bot's startup the schema supports every write the Store
\* issues: games has updated_at and notifications exists, so add_game,
\* update_game and add_notification issued afterwards can succeed
C30_SchemaSupportsWrites ==
    \A op \in StoreWrites : Executes(op, schema)

\* C30 for a start that does not rebuild: the schema is the one of init_db
SchemaKeptWithoutRebuild ==
    ~Rebuilt => schema = init_db(NoTables, {})

-----------------------------------------------------------------------------
(***************************************************************************)
(* SpecTitle: add_game called with the dicts of a sync and with dicts      *)
(* whose title is empty or missing.                                        *)
(***************************************************************************)

\* dicts with an empty title and with no title key
UntitledInputs ==
    {[title |-> "", description |-> "no title", url |-> BaseUrl],
     [description |-> "no title", url |-> BaseUrl]}

NextTitle ==
    \/ \E game \in GameInputs \cup UntitledInputs, raises \in BOOLEAN :
           AddGame(game, raises)
    \/ \E game_id \in IdInputs, raises \in BOOLEAN : DeleteGame(game_id, raises)

SpecTitle == Init /\ [][NextTitle]_vars

\* C13: no record with an empty title is ever persisted; add_game called
\* with an empty or missing title stores nothing
C13_NoEmptyTitleStored == \A r \in games : r.title # ""

-----------------------------------------------------------------------------
(***************************************************************************)
(* SpecQuery: the genre queries of the Store, over the stores add_game can *)
(* have written; no write happens while the pages of a genre are read.     *)
(***************************************************************************)

QueryMaxLimit == 2
DefaultLimit == 5

\* the titles of the stores, in the order ORDER BY title gives them
QueryTitles == <<"A", "B", "C", "D", "E", "F">>

QueryGenreLists == {<<"Action">>, <<"JRPG">>}

\* the genres a user asks for
QueryGenres == {"Action", "RPG"}

\* the pairs <<s, t>> of different genre names with s a substring of t
SubstringPairs == {<<"RPG", "JRPG">>}

TitleRank(t) == CHOOSE i \in DOMAIN QueryTitles : QueryTitles[i] = t

\* the row add_game stores for title t with genre list g; the titles were
\* added in reverse alphabetical order
QueryRow(t, g) ==
    NewRow(Len(QueryTitles) + 1 - TitleRank(t),
           AddGameValues([title |-> t, genres |-> g, url |-> DetailUrl(t)]), 0)

QueryStores ==
    UNION {{{QueryRow(t, f[t]) : t \in S} : f \in [S -> QueryGenreLists]} :
               S \in SUBSET {QueryTitles[i] : i \in DOMAIN QueryTitles}}

\* genres LIKE '%genre%' on the stored JSON text
Like(text, genre) ==
    \E i \in DOMAIN text :
        text[i] = genre \/ <<genre, text[i]>> \in SubstringPairs

\* json.loads of a stored list
JsonLoads(text) ==
    [i \in DOMAIN text |->
        IF \E g \in NonAscii : text[i] = "\\u(" \o g \o ")"
        THEN CHOOSE g \in NonAscii : text[i] = "\\u(" \o g \o ")"
        ELSE text[i]]

\* ORDER BY title
RECURSIVE OrderByTitle(_)
OrderByTitle(rows) ==
    IF rows = {} THEN <<>>
    ELSE LET first == CHOOSE r \in rows :
                          \A q \in rows : TitleRank(r.title) <= TitleRank(q.title)
         IN  <<first>> \o OrderByTitle(rows \ {first})

\* the offset is ignored: every page starts at the first row
LimitOffset_NoOffset(rows, limit, offset) ==
    SubSeq(rows, 1, IF limit < Len(rows) THEN limit ELSE Len(rows))

\* LIMIT ? OFFSET ?
LimitOffset(rows, limit, offset) ==
    SubSeq(rows, offset + 1, IF offset + limit < Len(rows)
                             THEN offset + limit ELSE Len(rows))

\* the dict get_games_by_genre builds from a row
RowDict(r) ==
    [r EXCEPT !.genres = JsonLoads(r.genres),
              !.screenshots = JsonLoads(r.screenshots)]

\* Database.get_games_by_genre
GetGamesByGenre(rows, genre, limit, offset) ==
    LET found == LimitOffset(OrderByTitle({r \in rows : Like(r.genres, genre)}),
                             limit, offset)
    IN  [i \in DOMAIN found |-> RowDict(found[i])]

\* Database.get_games_count_by_genre
GetGamesCountByGenre(rows, genre) ==
    Cardinality({r \in rows : Like(r.genres, genre)})

InitQuery ==
    /\ games \in QueryStores
    /\ notifications = {}
    /\ seq_games = Len(QueryTitles)
    /\ seq_notif = 0
    /\ now = 0
    /\ last = LastOp("init", TRUE, FALSE)
    /\ lock = "free"
    /\ db_writer = "none"
    /\ tpc = [t \in Tasks |-> "idle"]
    /\ top = [t \in Tasks |-> [op |-> "none", arg |-> 0, data |-> <<>>]]
    /\ DedupIdle /\ ExtIdle /\ SyncIdle /\ CheckIdle /\ HostIdle /\ CallIdle

\* a genre is chosen: its first page is read at offset 0, and the count
ShowGenre(genre, limit) ==
    /\ f_pc = "idle"
    /\ f_in' = [genre |-> genre, limit |-> limit]
    /\ LET count == GetGamesCountByGenre(games, genre) IN
       /\ f_out' = [pages |-> <<GetGamesByGenre(games, genre, limit, 0)>>,
                    count |-> count]
       /\ f_pc' = IF limit < count THEN "paging" ELSE "end"
    /\ UNCHANGED <<storeVars, now, last, lockVars, dedupVars, extVars, syncVars, checkVars, hostVars>>

\* show_more_games at the next offset; the "more" button is offered while
\* offset + limit < total_games
ShowMoreGames ==
    /\ f_pc = "paging"
    /\ LET offset == Len(f_out.pages) * f_in.limit IN
       /\ f_out' = [f_out EXCEPT
                      !.pages = Append(@, GetGamesByGenre(games, f_in.genre,
                                                          f_in.limit, offset)),
                      !.count = GetGamesCountByGenre(games, f_in.genre)]
       /\ f_pc' = IF offset + f_in.limit < GetGamesCountByGenre(games, f_in.genre)
                  THEN "paging" ELSE "end"
    /\ UNCHANGED f_in
    /\ UNCHANGED <<storeVars, now, last, lockVars, dedupVars, extVars, syncVars, checkVars, hostVars>>

\* stats_command and final_bot_test: get_games_by_genre(genre) with the
\* default limit and offset, and len() of the result as the genre's count
StatsCommand(genre) ==
    /\ f_pc = "idle"
    /\ f_in' = [genre |-> genre, limit |-> DefaultLimit]
    /\ LET found == GetGamesByGenre(games, genre, DefaultLimit, 0) IN
       f_out' = [pages |-> <<found>>, count |-> Len(found)]
    /\ f_pc' = "stats"
    /\ UNCHANGED <<storeVars, now, last, lockVars, dedupVars, extVars, syncVars, checkVars, hostVars>>

NextQuery ==
    \/ \E genre \in QueryGenres, limit \in 1..QueryMaxLimit : ShowGenre(genre, limit)
    \/ ShowMoreGames
    \/ \E genre \in QueryGenres : StatsCommand(genre)

SpecQuery == InitQuery /\ [][NextQuery]_vars

\* the stored records whose serialized genre list contains genre
Matches(genre) == {r \in games : Like(r.genres, genre)}

\* the position of record r among the matches of genre sorted by title
PositionOf(r, genre) ==
    1 + Cardinality({q \in Matches(genre) :
                        TitleRank(q.title) < TitleRank(r.title)})

\* the number of positions of offset+1 .. offset+limit that exist among n
PageLength(n, limit, offset) ==
    IF n <= offset THEN 0 ELSE IF n - offset < limit THEN n - offset ELSE limit

\* page k of f_out holds, in order, the matches at positions
\* offset+1 .. offset+limit of the list sorted by title, offset = (k-1)*limit
PageIsSlice(k) ==
    LET page == f_out.pages[k]
        offset == (k - 1) * f_in.limit
    IN  /\ Len(page) = PageLength(Cardinality(Matches(f_in.genre)),
                                  f_in.limit, offset)
        /\ \A j \in DOMAIN page :
              \E r \in Matches(f_in.genre) :
                  /\ page[j] = RowDict(r)
                  /\ PositionOf(r, f_in.genre) = offset + j

\* C14: get_games_by_genre(genre, limit, offset) returns the matches at
\* positions offset+1 .. offset+limit of the title-sorted list,
\* get_games_count_by_genre the number of matches, and the pages at offsets
\* 0, limit, 2*limit, ... are disjoint and together hold every match once
C14_PagesPartitionMatches ==
    f_pc \in {"paging", "end"} =>
        /\ f_out.count = Cardinality(Matches(f_in.genre))
        /\ \A k \in DOMAIN f_out.pages : PageIsSlice(k)
        /\ \A k1, k2 \in DOMAIN f_out.pages :
              \A j1 \in DOMAIN f_out.pages[k1], j2 \in DOMAIN f_out.pages[k2] :
                  f_out.pages[k1][j1].id = f_out.pages[k2][j2].id
                      => k1 = k2 /\ j1 = j2
        /\ f_pc = "end" =>
              \A r \in Matches(f_in.genre) :
                  \E k \in DOMAIN f_out.pages :
                      \E j \in DOMAIN f_out.pages[k] :
                          f_out.pages[k][j].id = r.id

\* five matches have been read in three pages of two, two and one
C14_Witness ==
    /\ f_pc = "end"
    /\ f_in.limit = 2
    /\ Len(f_out.pages) = 3
    /\ Len(f_out.pages[3]) = 1

\* C15: get_games_by_genre(genre) without limit and offset returns every
\* game of the genre: the length of its result is the number of stored games
\* whose genre list contains genre
C15_DefaultCallReturnsAll ==
    f_pc = "stats" =>
        f_out.count = Cardinality(Matches(f_in.genre))

-----------------------------------------------------------------------------
(***************************************************************************)
(* SpecGenres: GameParser._extract_genres_from_page on the content of the  *)
(* genre metadata.  A text is the sequence of its characters.              *)
(***************************************************************************)

MaxSegments == 3

\* the segments the metadata values are made of
GenreSegments ==
    {<<"A", "c", "t", "i", "o", "n">>, <<" ", "R", "P", "G", " ">>, <<"A", "d", "v", "e", "n", "t", "u", "r", "e">>, <<"P", "u", "z", "z", "l", "e">>, <<" ">>, <<>>}

RECURSIVE JoinComma(_)
JoinComma(segs) ==
    IF Len(segs) = 0 THEN <<>>
    ELSE IF Len(segs) = 1 THEN segs[1]
    ELSE segs[1] \o <<",">> \o JoinComma(Tail(segs))

\* the content attribute of <meta itemprop="genre">
GenreContents ==
    {JoinComma(segs) : segs \in UNION {[1..n -> GenreSegments] : n \in 1..MaxSegments}}

UpperCase == <<"A", "C", "D", "E", "G", "I", "L", "N", "O", "P", "R", "T", "U", "V", "Z">>
LowerCase == <<"a", "c", "d", "e", "g", "i", "l", "n", "o", "p", "r", "t", "u", "v", "z">>
IsLetter(c) ==
    \E i \in DOMAIN UpperCase : c = UpperCase[i] \/ c = LowerCase[i]

\* str.lower and str.upper on one character
LowerChar(c) ==
    IF \E i \in DOMAIN UpperCase : UpperCase[i] = c
    THEN LowerCase[CHOOSE i \in DOMAIN UpperCase : UpperCase[i] = c] ELSE c
UpperChar(c) ==
    IF \E i \in DOMAIN LowerCase : LowerCase[i] = c
    THEN UpperCase[CHOOSE i \in DOMAIN LowerCase : LowerCase[i] = c] ELSE c

\* str.lower
Lower(text) == [i \in DOMAIN text |-> LowerChar(text[i])]

\* str.title: the first letter of every run of letters in upper case, the
\* others in lower case
Title(text) ==
    [i \in DOMAIN text |->
        IF i = 1 \/ ~IsLetter(text[i - 1])
        THEN UpperChar(text[i]) ELSE LowerChar(text[i])]

\* str.strip
RECURSIVE Strip(_)
Strip(text) ==
    IF text = <<>> THEN <<>>
    ELSE IF Head(text) = " " THEN Strip(Tail(text))
    ELSE IF text[Len(text)] = " " THEN Strip(SubSeq(text, 1, Len(text) - 1))
    ELSE text

\* str.split(',')
RECURSIVE SplitComma(_)
SplitComma(text) ==
    IF \A i \in DOMAIN text : text[i] # ","
    THEN <<text>>
    ELSE LET k == CHOOSE i \in DOMAIN text :
                      text[i] = "," /\ \A j \in 1..(i - 1) : text[j] # ","
         IN  <<SubSeq(text, 1, k - 1)>> \o SplitComma(SubSeq(text, k + 1, Len(text)))

\* str.replace(word, ''): every occurrence of word is removed, left to right
RECURSIVE Remove(_, _)
Remove(text, word) ==
    IF Len(text) < Len(word) THEN text
    ELSE IF SubSeq(text, 1, Len(word)) = word
    THEN Remove(SubSeq(text, Len(word) + 1, Len(text)), word)
    ELSE <<Head(text)>> \o Remove(Tail(text), word)

\* exclude_words of _clean_genre_name, in its order
ExcludeWords ==
    <<<<"cyr_i", "cyr_g", "cyr_r", "cyr_a">>,
      <<"g", "a", "m", "e">>,
      <<"cyr_d", "cyr_l", "cyr_ya">>,
      <<"f", "o", "r">>,
      <<"cyr_n", "cyr_a">>,
      <<"o", "n">>,
      <<"s", "w", "i", "t", "c", "h">>,
      <<"n", "i", "n", "t", "e", "n", "d", "o">>,
      <<"cyr_k", "cyr_o", "cyr_n", "cyr_s", "cyr_o", "cyr_l", "cyr_soft">>,
      <<"c", "o", "n", "s", "o", "l", "e">>,
      <<"cyr_p", "cyr_l", "cyr_a", "cyr_t", "cyr_f", "cyr_o", "cyr_r", "cyr_m", "cyr_a">>,
      <<"p", "l", "a", "t", "f", "o", "r", "m">>>>

\* for word in exclude_words: genre_lower = genre_lower.replace(word, '').strip()
RECURSIVE RemoveWords(_, _)
RemoveWords(text, n) ==
    IF n = 0 THEN text
    ELSE Strip(Remove(RemoveWords(text, n - 1), ExcludeWords[n]))

\* the genre name is returned as it was written
CleanGenreName_Keep(genre) == genre

\* GameParser._clean_genre_name
CleanGenreName(genre) ==
    IF genre = <<>> THEN <<>>
    ELSE Title(RemoveWords(Lower(genre), Len(ExcludeWords)))

\* for part in genre_parts: the cleaned names, without empty ones and
\* without repetitions
RECURSIVE CleanedParts(_, _)
CleanedParts(parts, n) ==
    IF n = 0 THEN <<>>
    ELSE LET before == CleanedParts(parts, n - 1)
             genre == CleanGenreName(Strip(parts[n]))
         IN  IF Strip(parts[n]) # <<>> /\ genre # <<>>
                /\ \A k \in DOMAIN before : before[k] # genre
             THEN Append(before, genre)
             ELSE before

\* genres[:10]
FirstTen(list) == SubSeq(list, 1, IF Len(list) < 10 THEN Len(list) ELSE 10)

\* _extract_genres_from_page for a page whose article holds
\* <meta itemprop="genre" content=...>; with no genre left the method goes on
\* to its other sources
ExtractGenresFromMeta(content) ==
    LET parts == SplitComma(Strip(content))
        genres == CleanedParts(parts, Len(parts))
    IN  IF Strip(content) # <<>> /\ genres # <<>>
        THEN [genres |-> FirstTen(genres), source |-> "meta"]
        ELSE [genres |-> <<>>, source |-> "other"]

InitGenres ==
    /\ StoreInit /\ DedupIdle /\ ExtIdle /\ SyncIdle /\ CheckIdle /\ HostIdle
    /\ f_pc = "page"
    /\ f_in \in GenreContents
    /\ f_out = <<>>

ExtractGenres ==
    /\ f_pc = "page"
    /\ f_out' = ExtractGenresFromMeta(f_in)
    /\ f_pc' = "genres"
    /\ UNCHANGED f_in
    /\ UNCHANGED <<storeVars, now, last, lockVars, dedupVars, extVars, syncVars, checkVars, hostVars>>

NextGenres == ExtractGenres

SpecGenres == InitGenres /\ [][NextGenres]_vars

\* the comma-separated segments of content, trimmed, without the empty ones
RECURSIVE TrimmedSegments(_)
TrimmedSegments(parts) ==
    IF parts = <<>> THEN <<>>
    ELSE IF Strip(Head(parts)) = <<>> THEN TrimmedSegments(Tail(parts))
    ELSE <<Strip(Head(parts))>> \o TrimmedSegments(Tail(parts))

NoRepetition(list) ==
    \A i, j \in DOMAIN list : list[i] = list[j] => i = j

\* C16: the metadata value "Action, RPG ,Adventure" yields exactly
\* ["Action", "RPG", "Adventure"]; in general each comma-separated segment is
\* trimmed, empty segments are dropped, and the order and the spelling of the
\* others are kept
C16_GenreSplitKeepsSpelling ==
    (f_pc = "genres" /\ NoRepetition(TrimmedSegments(SplitComma(f_in)))) =>
        f_out.genres = TrimmedSegments(SplitComma(f_in))

-----------------------------------------------------------------------------
(***************************************************************************)
(* SpecDescription: GameTrackerBot.extract_full_description on the         *)
(* paragraphs of div.full-story.  A paragraph is the length of its         *)
(* stripped text; the joined text is the kept paragraphs, two line breaks  *)
(* between them.                                                           *)
(***************************************************************************)

MaxParagraphs == 2
MinParagraph == 20
MinDescription == 100

ParagraphLengths == {0, 20, 21, 49, 50, 80, 100, 101, 150}

FullStories ==
    UNION {[1..n -> ParagraphLengths] : n \in 0..MaxParagraphs}

\* if text and len(text) > 20
KeepParagraph(n) == n > MinParagraph

\* a joined text of 100 characters is long enough
LongEnough_AtLeast(n) == n >= MinDescription

\* if len(full_text) > 100
LongEnough(n) == n > MinDescription

RECURSIVE KeptParagraphs(_)
KeptParagraphs(ps) ==
    IF ps = <<>> THEN <<>>
    ELSE IF KeepParagraph(Head(ps)) THEN <<Head(ps)>> \o KeptParagraphs(Tail(ps))
    ELSE KeptParagraphs(Tail(ps))

\* len("\n\n".join(texts))
RECURSIVE JoinedLength(_)
JoinedLength(texts) ==
    IF texts = <<>> THEN 0
    ELSE IF Len(texts) = 1 THEN texts[1]
    ELSE texts[1] + 2 + JoinedLength(Tail(texts))

\* the first method of extract_full_description: the joined text, or nothing
\* and the next method is tried
FullStoryDescription(ps) ==
    LET texts == KeptParagraphs(ps) IN
    IF texts # <<>> /\ LongEnough(JoinedLength(texts))
    THEN [accepted |-> TRUE, texts |-> texts]
    ELSE [accepted |-> FALSE, texts |-> <<>>]

InitDescription ==
    /\ StoreInit /\ DedupIdle /\ ExtIdle /\ SyncIdle /\ CheckIdle /\ HostIdle
    /\ f_pc = "page"
    /\ f_in \in FullStories
    /\ f_out = <<>>

ExtractFullDescription ==
    /\ f_pc = "page"
    /\ f_out' = FullStoryDescription(f_in)
    /\ f_pc' = "description"
    /\ UNCHANGED f_in
    /\ UNCHANGED <<storeVars, now, last, lockVars, dedupVars, extVars, syncVars, checkVars, hostVars>>

NextDescription == ExtractFullDescription

SpecDescription == InitDescription /\ [][NextDescription]_vars

\* the paragraphs of ps that are at least n characters long, in order
RECURSIVE ParagraphsOfAtLeast(_, _)
ParagraphsOfAtLeast(ps, n) ==
    IF ps = <<>> THEN <<>>
    ELSE IF Head(ps) >= n THEN <<Head(ps)>> \o ParagraphsOfAtLeast(Tail(ps), n)
    ELSE ParagraphsOfAtLeast(Tail(ps), n)

\* the joined paragraphs of at least par characters are returned exactly
\* when they make at least total characters, and are returned unchanged
AcceptsFrom(par, total) ==
    f_pc = "description" =>
        LET texts == ParagraphsOfAtLeast(f_in, par) IN
        /\ f_out.accepted <=> JoinedLength(texts) >= total
        /\ f_out.accepted => f_out.texts = texts

\* C17: the paragraphs of more than 20 characters are joined with blank
\* lines and the result is accepted exactly when it is longer than 100
\* characters: 80 and 100 characters are rejected, 101 and 150 accepted
C17_DescriptionThresholds == AcceptsFrom(MinParagraph + 1, MinDescription + 1)

\* a joined text of exactly 101 characters, made of two paragraphs, has
\* been accepted
C17_Witness ==
    /\ f_pc = "description"
    /\ f_out.accepted
    /\ Len(f_out.texts) = 2
    /\ JoinedLength(f_out.texts) = MinDescription + 1

\* C17 as stated: paragraphs of length >= 20, accepted exactly when the
\* total length is >= 100
C17_ThresholdsInclusive == AcceptsFrom(MinParagraph, MinDescription)

\* ---------------------------------------------------------------------
\* Rating normalisation: utils.extract_rating
\* ---------------------------------------------------------------------

\* the shapes of a rating text: a number followed by "/100", "/10", "%",
\* "из 100", "из 10", the word "rating" followed by a number, or no
\* numeric rating pattern at all
RatingForms == {"slash100", "slash10", "percent", "iz100", "iz10", "rating", "none"}

\* the number of the text in tenths (85 stands for 8.5)
RatingTenths == {0, 5, 70, 85, 100, 120, 845, 855, 1000, 1200}

RatingTexts == [form : RatingForms, tenths : RatingTenths]

\* the regular expressions in the order they are tried: the forms each of
\* them finds in a text ("N/100" also holds "N/10"), and the outcome of
\* the tests '/100' in pattern, '%' in pattern, 'из 100' in pattern on the
\* expression's own text, where \s* stands between the slash (or "из")
\* and the digits
RatingPatterns ==
    << [finds |-> {"slash100"},           slash100 |-> FALSE, percent |-> FALSE, iz100 |-> FALSE],
       [finds |-> {"slash100", "slash10"}, slash100 |-> FALSE, percent |-> FALSE, iz100 |-> FALSE],
       [finds |-> {"percent"},            slash100 |-> FALSE, percent |-> TRUE,  iz100 |-> FALSE],
       [finds |-> {"iz100"},              slash100 |-> FALSE, percent |-> FALSE, iz100 |-> FALSE],
       [finds |-> {"iz100", "iz10"},      slash100 |-> FALSE, percent |-> FALSE, iz100 |-> FALSE],
       [finds |-> {"rating"},             slash100 |-> FALSE, percent |-> FALSE, iz100 |-> FALSE] >>

Clamp(lo, hi, n) == IF n < lo THEN lo ELSE IF n > hi THEN hi ELSE n

\* f"{x:.0f}" of x = t / 10: round to nearest, ties to even
RoundHalfEven(t) ==
    LET q == t \div 10
        r == t % 10
    IN IF r < 5 THEN q
       ELSE IF r > 5 THEN q + 1
       ELSE IF q % 2 = 0 THEN q ELSE q + 1

\* the value of a percentage-like match: clamped to 0..100
HundredScale(t) == RoundHalfEven(Clamp(0, 1000, t))

TenScale_NotScaled(t) == RoundHalfEven(Clamp(0, 100, t))

\* the value of any other match: clamped to 0..10 and multiplied by 10
TenScale(t) == RoundHalfEven(Clamp(0, 100, t) * 10)

\* f"{rating:.0f}/100"
Formatted(n) == ToString(n) \o "/100"

RECURSIVE FirstMatch(_, _)
FirstMatch(patterns, form) ==
    IF patterns = <<>> THEN <<>>
    ELSE IF form \in Head(patterns).finds THEN <<Head(patterns)>>
    ELSE FirstMatch(Tail(patterns), form)

extract_rating(text) ==
    LET m == FirstMatch(RatingPatterns, text.form) IN
    IF m = <<>> THEN "N/A"
    ELSE IF m[1].slash100 \/ m[1].percent \/ m[1].iz100
         THEN Formatted(HundredScale(text.tenths))
         ELSE Formatted(TenScale(text.tenths))

InitRating ==
    /\ StoreInit /\ DedupIdle /\ ExtIdle /\ SyncIdle /\ CheckIdle /\ HostIdle
    /\ f_pc = "page"
    /\ f_in \in RatingTexts
    /\ f_out = <<>>

ExtractRating ==
    /\ f_pc = "page"
    /\ f_out' = extract_rating(f_in)
    /\ f_pc' = "rating"
    /\ UNCHANGED f_in
    /\ UNCHANGED <<storeVars, now, last, lockVars, dedupVars, extVars, syncVars, checkVars, hostVars>>

NextRating == ExtractRating

SpecRating == InitRating /\ [][NextRating]_vars

\* a "N/10" text gives its value times 10, clamped to 0..100, written by
\* show; a text without a rating pattern gives "N/A"
RatingWrittenBy(show) ==
    f_pc = "rating" =>
        /\ f_in.form = "slash10" => f_out = show[Clamp(0, 100, f_in.tenths)]
        /\ f_in.form = "none" => f_out = "N/A"

\* C18: a 10-point text such as "8.5/10" is returned as its value times
\* 10 on the 0-100 scale followed by "/100", that is "85/100", and a text
\* with no numeric rating pattern returns "N/A"
C18_TenPointTimesTen == RatingWrittenBy([n \in 0..100 |-> ToString(n) \o "/100"])

\* "8.5/10" has been normalised to "85/100"
C18_Witness ==
    /\ f_pc = "rating"
    /\ f_in = [form |-> "slash10", tenths |-> 85]
    /\ f_out = "85/100"

\* C18 as stated: "8.5/10" is returned as the string "85"
C18_BareNumber == RatingWrittenBy([n \in 0..100 |-> ToString(n)])

\* ---------------------------------------------------------------------
\* The detail extractor: GameParser.parse_game_details
\* ---------------------------------------------------------------------

MaxGallery == 11

TitleCap == 200
RatingCap == 10
ReleaseDateCap == 20
GenreCap == 50
FewScreenshots == 3
OtherImagesEnd == 6

\* the field extractors parse_game_details calls, in call order
Extractors ==
    <<"_extract_title", "_extract_description", "_extract_rating",
      "_extract_genres_from_page", "_extract_image", "_extract_screenshots",
      "_extract_release_date">>

ExtractorNames == {Extractors[i] : i \in DOMAIN Extractors}

\* the key of game each extractor fills
FieldOf ==
    [e \in ExtractorNames |->
        CASE e = "_extract_title" -> "title"
          [] e = "_extract_description" -> "description"
          [] e = "_extract_rating" -> "rating"
          [] e = "_extract_genres_from_page" -> "genres"
          [] e = "_extract_image" -> "image_url"
          [] e = "_extract_screenshots" -> "screenshots"
          [] e = "_extract_release_date" -> "release_date"]

\* the default= argument of each safe_execute call
DefaultOf ==
    [e \in ExtractorNames |->
        CASE e = "_extract_rating" -> "N/A"
          [] e \in {"_extract_genres_from_page", "_extract_screenshots"} -> <<>>
          [] OTHER -> ""]

\* the characters of a text as one string
RECURSIVE Text(_)
Text(chars) == IF chars = <<>> THEN "" ELSE Head(chars) \o Text(Tail(chars))

\* <meta itemprop="genre" content="Action,Adventure">
ActionAdventure ==
    JoinComma(<<<<"A", "c", "t", "i", "o", "n">>,
                <<"A", "d", "v", "e", "n", "t", "u", "r", "e">>>>)

\* a fetched detail page: the extractors that raise on it, whether it has a
\* poster image, the number of its gallery images, the number of further
\* gallery images that show the first one again under its absolute URL, and
\* the content of its genre metadata
DetailPages ==
    [raises : SUBSET ExtractorNames, poster : BOOLEAN, gallery : 0..MaxGallery,
     again : {0}, content : {ActionAdventure}]

PageOf(title) == DetailUrl(title)

PosterSrc == "/uploads/poster.jpg"
GallerySrc(i) == "/uploads/shot" \o ToString(i) \o ".jpg"

\* soup.select('.gallery img'), in document order
GalleryImages(page) ==
    [i \in 1..page.gallery |-> GallerySrc(i)]
        \o [i \in 1..page.again |-> BaseUrl \o GallerySrc(1)]

\* soup.find_all('img'): the poster, when there is one, comes first
AllImages(page) ==
    (IF page.poster THEN <<PosterSrc>> ELSE <<>>) \o GalleryImages(page)

\* url.startswith('http')
StartsWithHttp(url) == Len(url) >= 4 /\ SubSeq(url, 1, 4) = "http"

\* utils.normalize_url; the relative URLs here are root-relative paths, which
\* urljoin puts behind the scheme and host of base_url
normalize_url(base_url, url) ==
    IF url = "" THEN base_url
    ELSE IF StartsWithHttp(url) THEN url
    ELSE BaseUrl \o url

\* utils.is_valid_url: a scheme and a host
is_valid_url(url) == StartsWithHttp(url)

RECURSIVE CollapseSpaces(_)
CollapseSpaces(text) ==
    IF Len(text) < 2 THEN text
    ELSE IF SubSeq(text, 1, 2) = "  " THEN CollapseSpaces(SubSeq(text, 2, Len(text)))
    ELSE SubSeq(text, 1, 1) \o CollapseSpaces(SubSeq(text, 2, Len(text)))

TrimSpaces(text) ==
    LET l == IF Len(text) > 0 /\ SubSeq(text, 1, 1) = " "
             THEN SubSeq(text, 2, Len(text)) ELSE text
    IN IF Len(l) > 0 /\ SubSeq(l, Len(l), Len(l)) = " "
       THEN SubSeq(l, 1, Len(l) - 1) ELSE l

\* utils.clean_text on a text without markup: runs of white space become
\* one space and the ends are stripped
clean_text(text) == TrimSpaces(CollapseSpaces(text))

\* text[:n]
Truncate(text, n) == SubSeq(text, 1, IF Len(text) < n THEN Len(text) ELSE n)

\* list.append(x) if x not in list
RECURSIVE AppendNew(_, _)
AppendNew(list, more) ==
    IF more = <<>> THEN list
    ELSE AppendNew(IF \E i \in DOMAIN list : list[i] = Head(more)
                   THEN list ELSE Append(list, Head(more)),
                   Tail(more))

\* all_images[1:6]
OtherImages(page) ==
    LET all == AllImages(page) IN
    SubSeq(all, 2, IF Len(all) < OtherImagesEnd THEN Len(all) ELSE OtherImagesEnd)

\* GameParser._extract_screenshots: every gallery image, then, when fewer
\* than three were found, the page's images 2 to 6
_extract_screenshots(page) ==
    LET gallery == AppendNew(<<>>, [i \in DOMAIN GalleryImages(page) |->
                                        normalize_url(PageOf("Zelda"), GalleryImages(page)[i])])
    IN IF Len(gallery) < FewScreenshots
       THEN AppendNew(gallery, [i \in DOMAIN OtherImages(page) |->
                                    normalize_url(PageOf("Zelda"), OtherImages(page)[i])])
       ELSE gallery

\* GameParser._extract_image: the poster, else the first image of the page
_extract_image(page) ==
    IF AllImages(page) = <<>> THEN ""
    ELSE normalize_url(PageOf("Zelda"), Head(AllImages(page)))

\* what each extractor returns on the page when it does not raise
Extracted(page) ==
    [e \in ExtractorNames |->
        CASE e = "_extract_title" -> "Zelda"
          [] e = "_extract_description" -> "A hero wakes up.  The kingdom is lost."
          [] e = "_extract_rating" -> extract_rating([form |-> "slash10", tenths |-> 85])
          [] e = "_extract_genres_from_page" ->
                 LET genres == ExtractGenresFromMeta(page.content).genres
                 IN  [i \in DOMAIN genres |-> Text(genres[i])]
          [] e = "_extract_image" -> _extract_image(page)
          [] e = "_extract_screenshots" -> _extract_screenshots(page)
          [] e = "_extract_release_date" -> "2017-03-03"]

\* a call that lets the extractor's partial result through
safe_execute_NoDefault(raises, value, default) == value

\* utils.safe_execute
safe_execute(raises, value, default) == IF raises THEN default ELSE value

\* the dict game that parse_game_details fills before validation
GameDict(page) ==
    [k \in {"url"} \cup {FieldOf[e] : e \in ExtractorNames} |->
        IF k = "url" THEN PageOf("Zelda")
        ELSE LET e == CHOOSE x \in ExtractorNames : FieldOf[x] = k
             IN safe_execute(e \in page.raises, Extracted(page)[e], DefaultOf[e])]

\* the elements of list that keep holds, in order
RECURSIVE Filter(_, _)
Filter(list, keep) ==
    IF list = <<>> THEN <<>>
    ELSE IF keep[Head(list)] THEN <<Head(list)>> \o Filter(Tail(list), keep)
    ELSE Filter(Tail(list), keep)

\* utils.validate_game_data, for a dict whose title is not empty
validate_game_data(game) ==
    LET url == normalize_url(BaseUrl, game.url)
        genres == Filter(game.genres,
                         [g \in {game.genres[i] : i \in DOMAIN game.genres} |->
                             g # "" /\ clean_text(g) # ""])
        shots == Filter(game.screenshots,
                        [s \in {game.screenshots[i] : i \in DOMAIN game.screenshots} |->
                            s # "" /\ is_valid_url(normalize_url(url, s))])
    IN [title |-> Truncate(clean_text(game.title), TitleCap),
        description |-> clean_text(game.description),
        rating |-> Truncate(clean_text(game.rating), RatingCap),
        url |-> url,
        image_url |-> normalize_url(url, game.image_url),
        release_date |-> Truncate(clean_text(game.release_date), ReleaseDateCap),
        genres |-> [i \in DOMAIN genres |-> Truncate(clean_text(genres[i]), GenreCap)],
        screenshots |-> [i \in DOMAIN shots |-> normalize_url(url, shots[i])]]

NoRecord == [returned |-> FALSE]

\* GameParser.parse_game_details on a fetched page
parse_game_details(page) ==
    IF GameDict(page).title = "" THEN NoRecord
    ELSE IF validate_game_data(GameDict(page)).title = "" THEN NoRecord
    ELSE [returned |-> TRUE, game |-> validate_game_data(GameDict(page))]

InitDetails ==
    /\ StoreInit /\ DedupIdle /\ ExtIdle /\ SyncIdle /\ CheckIdle /\ HostIdle
    /\ f_pc = "page"
    /\ f_in \in DetailPages
    /\ f_out = <<>>

ParseGameDetails ==
    /\ f_pc = "page"
    /\ f_out' = parse_game_details(f_in)
    /\ f_pc' = "parsed"
    /\ UNCHANGED f_in
    /\ UNCHANGED <<storeVars, now, last, lockVars, dedupVars, extVars, syncVars, checkVars, hostVars>>

\* the record goes to add_game, as in update_database
SaveParsed ==
    /\ f_pc = "parsed"
    /\ f_out.returned
    /\ seq_games < MaxId
    /\ games' = InsertOrReplace(games, f_out.game, seq_games + 1, now)
    /\ seq_games' = seq_games + 1
    /\ last' = LastOp("add_game", TRUE, RowsByTitle(games, f_out.game.title) # {})
    /\ f_pc' = "saved"
    /\ UNCHANGED <<f_in, f_out>>
    /\ UNCHANGED <<notifications, seq_notif, now, lockVars, dedupVars, extVars, syncVars, checkVars, hostVars>>

NextDetails == ParseGameDetails \/ SaveParsed

SpecDetails == InitDetails /\ [][NextDetails]_vars

\* the record the same page gives when no extractor raises
Undisturbed == parse_game_details([f_in EXCEPT !.raises = {}]).game

NonTitleExtractors == ExtractorNames \ {"_extract_title"}

\* with the title extracted, a record is returned; the field of every
\* extractor that raised holds onFailure of that extractor, and every
\* other field is what it is when nothing raises
IsolatedWith(onFailure) ==
    (f_pc = "parsed" /\ "_extract_title" \notin f_in.raises) =>
        /\ f_out.returned
        /\ f_out.game.title = Undisturbed.title
        /\ f_out.game.url = Undisturbed.url
        /\ \A e \in NonTitleExtractors :
              f_out.game[FieldOf[e]] =
                  IF e \in f_in.raises THEN onFailure[e]
                  ELSE Undisturbed[FieldOf[e]]

C20_AtMostTenScreenshots ==
    /\ (f_pc \in {"parsed", "saved"} /\ f_out.returned) =>
           Len(f_out.game.screenshots) <= 10
    /\ f_pc = "saved" =>
           \A r \in games : Len(JsonLoads(r.screenshots)) <= 10

\* ---------------------------------------------------------------------
\* The list fields of a parsed record
\* ---------------------------------------------------------------------

MaxShots == 2

\* the segments of the genre metadata of the pages below
ListSegments ==
    {<<"A", "c", "t", "i", "o", "n">>,
     <<" ", "R", "P", "G", " ">>,
     <<"A", "r", "t", " ", "T", "a", "p", "e">>,
     <<"A", "r", "t", " ", "o", "n", " ", "T", "a", "p", "e">>}

ListContents ==
    {JoinComma(segs) : segs \in UNION {[1..n -> ListSegments] : n \in 1..MaxSegments}}

\* detail pages on which no extractor raises
ListPages ==
    [raises : {{}}, poster : BOOLEAN, gallery : 0..MaxShots,
     again : 0..1, content : ListContents]

InitLists ==
    /\ StoreInit /\ DedupIdle /\ ExtIdle /\ SyncIdle /\ CheckIdle /\ HostIdle
    /\ f_pc = "page"
    /\ f_in \in ListPages
    /\ f_out = <<>>

NextLists == ParseGameDetails

SpecLists == InitLists /\ [][NextLists]_vars

\* C21: the genres list and the screenshots list of every record
\* parse_game_details returns contain no duplicate elements
C21_ListsHaveNoDuplicates ==
    (f_pc = "parsed" /\ f_out.returned) =>
        /\ NoRepetition(f_out.game.genres)
        /\ NoRepetition(f_out.game.screenshots)

\* the screenshots half of C21 alone
ScreenshotsHaveNoDuplicates ==
    (f_pc = "parsed" /\ f_out.returned) => NoRepetition(f_out.game.screenshots)

\* ---------------------------------------------------------------------
\* The listing URL of a page index: GameParser.get_all_games, lines 835-858
\* ---------------------------------------------------------------------

MaxPageIndex == 4

\* a page index above 1 and the templates under which the source serves a
\* non-empty listing for it
TemplateInputs ==
    [page : 2..MaxPageIndex, serves : SUBSET DOMAIN PageUrls(2)]

InitTemplates ==
    /\ StoreInit /\ DedupIdle /\ ExtIdle /\ SyncIdle /\ CheckIdle /\ HostIdle
    /\ f_pc = "page"
    /\ f_in \in TemplateInputs
    /\ f_out = <<>>

\* one turn of the while loop up to "if not games": the URLs requested for
\* the page index, the URL used, and whether games were found
RequestListing ==
    /\ f_pc = "page"
    /\ f_out' = [requested |-> <<PageUrl(f_in.page)>>,
                 url |-> PageUrl(f_in.page),
                 games |-> \E k \in f_in.serves : PageUrls(f_in.page)[k] = PageUrl(f_in.page)]
    /\ f_pc' = "listed"
    /\ UNCHANGED f_in
    /\ UNCHANGED <<storeVars, now, last, lockVars, dedupVars, extVars, syncVars, checkVars, hostVars>>

NextTemplates == RequestListing

SpecTemplates == InitTemplates /\ [][NextTemplates]_vars

\* the first template that serves the page, or the last template when
\* none does
FirstServing(serves, n) ==
    IF serves = {} THEN n
    ELSE CHOOSE k \in serves : \A j \in serves : k <= j

\* C22: for a page index the templates are requested in their listed
\* order up to the first one that yields entries, and that one is used
C22_TemplatesTriedInOrder ==
    f_pc = "listed" =>
        LET urls == PageUrls(f_in.page)
            k == FirstServing(f_in.serves, Len(urls))
        IN  /\ f_out.requested = SubSeq(urls, 1, k)
            /\ f_in.serves # {} => f_out.url = urls[k] /\ f_out.games

\* the last EmptyStreak listing pages requested in this run each yielded
\* zero entries
ParserStreakReached ==
    /\ Len(g_hist) >= EmptyStreak
    /\ \A k \in (Len(g_hist) - EmptyStreak + 1)..Len(g_hist) : g_hist[k].n = 0

\* C25: get_all_games ends its walk only after 3 consecutive zero-entry
\* pages or at the page cap, not at the first empty or failed page
C25_WalkPassesEmptyPage ==
    (u_run > 0 /\ g_pc = "returned") =>
        ParserStreakReached \/ Len(g_hist) >= ParserMaxPages

\* ---------------------------------------------------------------------
\* The outbound requests and the delays of one walk of get_all_games
\* ---------------------------------------------------------------------

MaxPerPage == 2

\* a listing entry: with a link to a detail page, without one, or with a
\* link whose parse_game_details raises
EntryKinds == {"linked", "unlinked", "raising"}

PageEntries == UNION {[1..n -> EntryKinds] : n \in 0..MaxPerPage}

\* the listing pages of the source, in page order
Sources == [1..ParserMaxPages -> PageEntries]

\* one turn of "for i, game in enumerate(games)": the detail fetch of a
\* linked entry, then asyncio.sleep(0.5) unless the entry is the last of
\* the page; an exception leaves the try block before the sleep
RECURSIVE DetailEvents(_, _)
DetailEvents(entries, i) ==
    IF i > Len(entries) THEN <<>>
    ELSE (IF entries[i] = "unlinked" THEN <<>> ELSE <<"fetch_detail">>)
         \o (IF entries[i] # "raising" /\ i < Len(entries) THEN <<"sleep">> ELSE <<>>)
         \o DetailEvents(entries, i + 1)

\* the while loop of get_all_games from page on: the listing fetch, the
\* detail loop, asyncio.sleep(1), the next page; no games ends the loop
RECURSIVE WalkEvents(_, _)
WalkEvents(source, page) ==
    IF ~ParserMorePages(page) THEN <<>>
    ELSE IF source[page] = <<>> THEN <<"fetch_listing">>
    ELSE <<"fetch_listing">> \o DetailEvents(source[page], 1) \o <<"sleep">>
             \o WalkEvents(source, page + 1)

InitPoliteness ==
    /\ StoreInit /\ DedupIdle /\ ExtIdle /\ SyncIdle /\ CheckIdle /\ HostIdle
    /\ f_pc = "page"
    /\ f_in \in Sources
    /\ f_out = <<>>

GetAllGames ==
    /\ f_pc = "page"
    /\ f_out' = WalkEvents(f_in, 1)
    /\ f_pc' = "walked"
    /\ UNCHANGED f_in
    /\ UNCHANGED <<storeVars, now, last, lockVars, dedupVars, extVars, syncVars, checkVars, hostVars>>

NextPoliteness == GetAllGames

SpecPoliteness == InitPoliteness /\ [][NextPoliteness]_vars

IsFetch(e) == e \in {"fetch_listing", "fetch_detail"}

\* C23: between any two successive outbound fetches of a run the run
\* waits: no fetch follows the previous one without a delay, the first
\* detail fetch after a listing fetch included
C23_DelayBetweenFetches ==
    f_pc = "walked" =>
        \A k \in 1..(Len(f_out) - 1) : ~(IsFetch(f_out[k]) /\ IsFetch(f_out[k + 1]))

\* the writes of the Database and the purge that can cross them
FailingCalls ==
    {c \in TaskCalls :
        /\ c.op # "update_game_genres"
        /\ c.op = "add_game" => c.arg = Detail("A")}

NextFailure ==
    \/ \E t \in Tasks, c \in FailingCalls : Call(t, c)
    \/ \E t \in Tasks : Acquire(t)
    \/ \E t \in Tasks : Execute(t)
    \/ \E t \in Tasks : ExecuteRaises(t)
    \/ \E t \in Tasks : Commit(t)
    \/ \E t \in Tasks : CommitRaises(t)

SpecFailure == InitLock /\ [][NextFailure]_vars

\* task t leaves a Database write in this step with return value False
FailedWriteReturns(t) ==
    /\ top[t].op \in LockedOps
    /\ tpc[t] \in {"connected", "executed"}
    /\ tpc'[t] = "idle"
    /\ ~last'.ret

\* C24: a Database write that fails returns False to its caller, leaves
\* the stored records as they were before the call, and releases the
\* write lock
C24_FailedWriteIsContained ==
    [][\A t \in Tasks :
          FailedWriteReturns(t) =>
              /\ last'.op = top[t].op
              /\ games' = games
              /\ notifications' = notifications
              /\ lock' = "free"
              /\ db_writer' # t]_vars

\* an add_game has failed while rows were stored, the rows are still
\* there, the lock is free and another task is already waiting for it
C24_Witness ==
    /\ last = LastOp("add_game", FALSE, FALSE)
    /\ games # {}
    /\ lock = "free"
    /\ \E t \in Tasks : tpc[t] = "waiting"

\* ---------------------------------------------------------------------
\* Genre listing against genre query
\* ---------------------------------------------------------------------

\* Database.get_all_genres: the union of json.loads of every stored list
\* other than "[]" (sorted on return)
GetAllGenres(rows) ==
    UNION {{JsonLoads(r.genres)[i] : i \in DOMAIN r.genres} :
              r \in {q \in rows : q.genres # <<>>}}

\* the rows whose genre list holds genre
RowsWithGenre(rows, genre) ==
    {r \in rows : \E i \in DOMAIN r.genres : JsonLoads(r.genres)[i] = genre}

\* C26: for every genre that get_all_genres returns, the count by genre is
\* at least 1 and the query by genre, with a limit as large as the table,
\* returns every record whose genre list holds it, for Cyrillic genres as
\* for ASCII ones
C26_ListedGenresAreFound ==
    \A g \in GetAllGenres(games) :
        /\ GetGamesCountByGenre(games, g) >= 1
        /\ LET found == GetGamesByGenre(games, g, Cardinality(games), 0)
           IN  \A r \in RowsWithGenre(games, g) :
                  \E i \in DOMAIN found : found[i].id = r.id

\* C26 for the ASCII genres alone
AsciiGenresAreFound ==
    \A g \in GetAllGenres(games) \ NonAscii :
        /\ GetGamesCountByGenre(games, g) >= 1
        /\ LET found == GetGamesByGenre(games, g, Cardinality(games), 0)
           IN  \A r \in RowsWithGenre(games, g) :
                  \E i \in DOMAIN found : found[i].id = r.id

\* ---------------------------------------------------------------------
\* The frame of the two updates
\* ---------------------------------------------------------------------

\* the step is a call of update_game_genres(game_id, new_genres) on an
\* existing id: it returns True, the record holds new_genres, its other
\* fields except updated_at and all other records are as before
GenresUpdateApplies(game_id, new_genres) ==
    (UpdateGameGenres(game_id, new_genres) /\ RowsById(games, game_id) # {}) =>
        /\ last'.ret
        /\ \A r \in games :
              \E q \in games' :
                 /\ q.id = r.id
                 /\ \A k \in DOMAIN r \ {"genres", "updated_at"} : q[k] = r[k]
                 /\ q.genres = IF r.id = game_id THEN JsonDumps(new_genres, FALSE)
                               ELSE r.genres
        /\ Cardinality(games') = Cardinality(games)

\* the step is a call of update_game(game_id, game_data): only the fields
\* present in game_data, and updated_at, differ, and never title or id
UpdateKeepsOtherFields(game_id, game_data) ==
    (\E raises \in BOOLEAN : UpdateGame(game_id, game_data, raises)) =>
        /\ Cardinality(games') = Cardinality(games)
        /\ \A r \in games :
              \E q \in games' :
                 /\ q.id = r.id
                 /\ q.title = r.title
                 /\ \A k \in DOMAIN r \ (DOMAIN game_data \cup {"updated_at"}) :
                       q[k] = r[k]
                 /\ r.id # game_id => q = r

\* the update_game half of C27
UpdateGameFrame ==
    [][\A id \in IdInputs, d \in UpdateInputs : UpdateKeepsOtherFields(id, d)]_vars

\* C27: update_game_genres on an existing id returns True and sets that
\* record's genres, leaving its other fields except updated_at and every
\* other record unchanged; update_game changes only the fields present in
\* game_data and never the title or the id
C27_UpdatesTouchOnlyTheirFields ==
    [][/\ \A id \in IdInputs : GenresUpdateApplies(id, <<"RPG">>)
       /\ \A id \in IdInputs, d \in UpdateInputs : UpdateKeepsOtherFields(id, d)]_vars

\* C28: a rating given out of 100 or in percent is kept, clamped to
\* 0..100, and not multiplied by 10; a 10-point rating is clamped to 0..10
\* and multiplied by 10
C28_HundredScaleKept ==
    f_pc = "rating" =>
        /\ f_in.form \in {"slash100", "iz100", "percent"} =>
              f_out = Formatted(RoundHalfEven(Clamp(0, 1000, f_in.tenths)))
        /\ f_in.form \in {"slash10", "iz10", "rating"} =>
              f_out = Formatted(Clamp(0, 100, f_in.tenths))

\* C28 without the two forms written out of 100
PercentAndTenPointScaled ==
    f_pc = "rating" =>
        /\ f_in.form = "percent" =>
              f_out = Formatted(RoundHalfEven(Clamp(0, 1000, f_in.tenths)))
        /\ f_in.form \in {"slash10", "iz10", "rating"} =>
              f_out = Formatted(Clamp(0, 100, f_in.tenths))

-----------------------------------------------------------------------------
(***************************************************************************)
(* SpecInstances: bot processes run the lock-file block of main.py on one  *)
(* host, their steps interleaved.  single_instance.py is imported by no    *)
(* module; the block of main.py is the only protocol that runs.            *)
(***************************************************************************)

\* the lock files glob.glob("bot_instance_*.lock") returns, by owner
LockOwners == {f.owner : f \in lock_files}

\* os.remove(lock)
RemoveLock(files, owner) == {f \in files : f.owner # owner}

OtherHostVarsUnchanged ==
    UNCHANGED <<games, notifications, seq_games, seq_notif, now, last, lockVars,
                dedupVars, extVars, syncVars, checkVars, callVars, schema>>

\* existing_locks = glob.glob("bot_instance_*.lock"); if existing_locks: ...
GlobLocks(i) ==
    /\ i_pc[i] = "off"
    /\ i_seen' = [i_seen EXCEPT ![i] = LockOwners]
    /\ i_pc' = [i_pc EXCEPT ![i] = IF LockOwners = {} THEN "create" ELSE "checking"]
    /\ UNCHANGED lock_files
    /\ OtherHostVarsUnchanged

\* one turn of "for lock in existing_locks": a lock older than 600 seconds
\* is removed; for a younger one exit(0) raises SystemExit inside the try
\* whose handler is a bare "except: pass", so the loop goes on; so it does
\* when getmtime raises because the file is gone
CheckLock(i, o) ==
    /\ i_pc[i] = "checking"
    /\ o \in i_seen[i]
    /\ lock_files' = IF \E f \in lock_files : f.owner = o /\ f.old
                     THEN RemoveLock(lock_files, o)
                     ELSE lock_files
    /\ i_seen' = [i_seen EXCEPT ![i] = @ \ {o}]
    /\ i_pc' = [i_pc EXCEPT ![i] = IF i_seen[i] = {o} THEN "create" ELSE "checking"]
    /\ OtherHostVarsUnchanged

\* with open(lock_file, 'w') as f: f.write(...)
CreateLock(i) ==
    /\ i_pc[i] = "create"
    /\ lock_files' = RemoveLock(lock_files, i) \cup {[owner |-> i, old |-> FALSE]}
    /\ i_pc' = [i_pc EXCEPT ![i] = "created"]
    /\ UNCHANGED i_seen
    /\ OtherHostVarsUnchanged

\* bot.run(): the process polls until it is stopped
BotRun(i) ==
    /\ i_pc[i] = "created"
    /\ i_pc' = [i_pc EXCEPT ![i] = "polling"]
    /\ UNCHANGED <<i_seen, lock_files>>
    /\ OtherHostVarsUnchanged

\* finally: os.remove(lock_file), its failure ignored
BotStops(i) ==
    /\ i_pc[i] = "polling"
    /\ lock_files' = RemoveLock(lock_files, i)
    /\ i_pc' = [i_pc EXCEPT ![i] = "stopped"]
    /\ UNCHANGED i_seen
    /\ OtherHostVarsUnchanged

\* the process is started again (the platform restarts a stopped service)
BotRestarts(i) ==
    /\ i_pc[i] = "stopped"
    /\ i_pc' = [i_pc EXCEPT ![i] = "off"]
    /\ UNCHANGED <<i_seen, lock_files>>
    /\ OtherHostVarsUnchanged

\* ten minutes pass: nothing refreshes a lock file's mtime, so every lock
\* file there is now older than 600 seconds
TenMinutesPass ==
    /\ \E f \in lock_files : ~f.old
    /\ lock_files' = {[owner |-> f.owner, old |-> TRUE] : f \in lock_files}
    /\ UNCHANGED <<i_pc, i_seen>>
    /\ OtherHostVarsUnchanged

NextInstances ==
    \/ \E i \in Instances : GlobLocks(i)
    \/ \E i \in Instances, o \in Instances : CheckLock(i, o)
    \/ \E i \in Instances : CreateLock(i)
    \/ \E i \in Instances : BotRun(i)
    \/ \E i \in Instances : BotStops(i)
    \/ \E i \in Instances : BotRestarts(i)
    \/ TenMinutesPass

SpecInstances == Init /\ [][NextInstances]_vars

Polling == {i \in Instances : i_pc[i] = "polling"}

\* C29: the instance lock gives mutual exclusion: while one bot instance is
\* polling, its lock file created, no second instance starts polling,
\* whatever the interleaving of the two startups and however long the
\* first has been running
C29_OneInstancePolls ==
    Cardinality(Polling) <= 1

====
